---------------------------- MODULE Spec2Model ----------------------------
(***************************************************************************)
(* Character-state synchronisation of sample-sync-websockets.              *)
(*                                                                         *)
(* Two CharacterManager variants exist in the repository:                  *)
(*   - the hash-table manager whose operations return [success, error]     *)
(*     tuples (character-manager.ts, used by http-ws-worker.ts);           *)
(*   - the array manager whose operations return booleans and that is      *)
(*     driven through EventEmitter events (shared/characters.ts, used by   *)
(*     the Redis fan-out worker).                                          *)
(*                                                                         *)
(* The specifications of the module:                                       *)
(*   - Spec / FairSpec: one CharacterManager (either variant) called       *)
(*     directly, the clock and the runtime's timeouts;                     *)
(*   - SpecH: the session worker (http-ws-worker.ts) with its sockets and  *)
(*     the hash-table manager;                                             *)
(*   - SpecF / FairSpecF: the Redis fan-out workers with their array       *)
(*     managers and the shared channel; SpecG adds foreign messages;       *)
(*   - SpecT: the session worker at the scale of the introduce throttle;   *)
(*   - SpecL: the hash-table manager and a caller of characterList();      *)
(*   - SpecS: the start and the shutdown of a worker process;              *)
(*   - SpecM / FairSpecM: the master process and its forked workers;       *)
(*   - SpecC / FairSpecC: the scene (a client with its own manager) and    *)
(*     another client, both connected to the session worker.               *)
(*                                                                         *)
(* JavaScript strings are modelled as sequences of one-character strings,  *)
(* so that the regular expressions of formats.ts are computed, not         *)
(* assumed.  JavaScript numbers are tagged records, so that NaN, Infinity  *)
(* and undefined are values like any other.                                *)
(***************************************************************************)
EXTENDS Integers, Sequences, FiniteSets, TLC

VARIABLES
    variant,   \* "hash" | "array": which CharacterManager the registry harness drives
    reg,       \* the CharacterManager of the harness and of the session worker
    hist,      \* ghost of the specification at hand (per id, ms since the last accepted event, ...); the scene in SpecC
    sconns,    \* session worker: per socket, connected, characterId and the throttle's state
    up,        \* session worker: the process is running
    sent,      \* session worker: the messages the last handler emitted
    fw,        \* fan-out workers: per worker, its CharacterManager, sockets, running
    chan,      \* the Redis channel: the published messages and who has yet to get each; in SpecC the messages on their way to the scene
    events,    \* fan-out workers: the client events handled so far
    proc       \* a worker process: its kind, the closes that throw, its phase and exit status; in SpecM the master and its workers

vars == <<variant, reg, hist, sconns, up, sent, fw, chan, events, proc>>

---------------------------------------------------------------------------
(* JavaScript values *)

\* the value `undefined` where a string is expected (no real string has a
\* multi-character element)
Undefined == <<"undefined">>

\* String(undefined), as RegExp.prototype.test coerces its argument
UndefinedText == <<"u","n","d","e","f","i","n","e","d">>

toStr(s) == IF s = Undefined THEN UndefinedText ELSE s

Num(n) == [k |-> "number", v |-> n]
NaN == [k |-> "NaN", v |-> 0]
Infinity == [k |-> "Infinity", v |-> 0]
UndefinedNum == [k |-> "undefined", v |-> 0]
NullNum == [k |-> "null", v |-> 0]

Vec(a, b, c) == [k |-> "object", x |-> a, y |-> b, z |-> c]
UndefinedVec == [k |-> "undefined", x |-> UndefinedNum, y |-> UndefinedNum, z |-> UndefinedNum]

Digits == {"0","1","2","3","4","5","6","7","8","9"}
Letters ==
    {"a","b","c","d","e","f","g","h","i","j","k","l","m",
     "n","o","p","q","r","s","t","u","v","w","x","y","z",
     "A","B","C","D","E","F","G","H","I","J","K","L","M",
     "N","O","P","Q","R","S","T","U","V","W","X","Y","Z"}

---------------------------------------------------------------------------
(* config.ts *)

boundsMin == -10
boundsMax == 10
characterIdleMs == 60000

---------------------------------------------------------------------------
(* formats.ts *)

IdPrefix == <<"c","h","a","r","a","c","t","e","r","-">>
IdMinDigits == 5
IdMaxDigits == 20
UsernameMinLen == 3
UsernameMaxLen == 20

\* /^character-\d{5,20}$/.test(s)
validIdPattern(s) ==
    /\ Len(s) >= Len(IdPrefix) + IdMinDigits
    /\ Len(s) <= Len(IdPrefix) + IdMaxDigits
    /\ SubSeq(s, 1, Len(IdPrefix)) = IdPrefix
    /\ \A i \in (Len(IdPrefix) + 1)..Len(s) : s[i] \in Digits

\* /^[0-9a-zA-Z\-\_\.\ ]{3,20}$/.test(s)
validUsernamePattern(s) ==
    /\ Len(s) >= UsernameMinLen
    /\ Len(s) <= UsernameMaxLen
    /\ \A i \in 1..Len(s) : s[i] \in Digits \cup Letters \cup {"-", "_", ".", " "}

\* formats.ts without null checks (the one the hash-table manager imports)
isValidId(id) == validIdPattern(toStr(id))

isValidUsername(username) == validUsernamePattern(toStr(username))

\* lodash isNumber: typeof value == "number"
isNumber(num) == num.k \in {"number", "NaN", "Infinity"}

\* lodash isFinite
isFinite(num) == num.k = "number"

isValidNumber(num) == isNumber(num) /\ isFinite(num)

\* reads v3.x of an undefined v3: a TypeError
isValidVector3ComponentThrows(v3) == v3.k = "undefined"

isValidVector3Component(v3) ==
    /\ v3.k = "object"
    /\ isValidNumber(v3.x)
    /\ isValidNumber(v3.y)
    /\ isValidNumber(v3.z)

\* lodash clamp(num, boundsMin, boundsMax): toNumber (null is 0, undefined is
\* NaN), and NaN stays NaN
clampNumber(num) ==
    CASE num.k = "number" ->
           Num(IF num.v < boundsMin THEN boundsMin
               ELSE IF num.v > boundsMax THEN boundsMax ELSE num.v)
      [] num.k = "Infinity" -> Num(boundsMax)
      [] num.k = "null" -> Num(0)
      [] OTHER -> NaN

clampVector3(v3) == Vec(clampNumber(v3.x), clampNumber(v3.y), clampNumber(v3.z))

\* shared/characters.ts: the validators with null checks
isValidIdArr(id) == id # Undefined /\ validIdPattern(id)

isValidUsernameArr(username) == username # Undefined /\ validUsernamePattern(username)


---------------------------------------------------------------------------
(* Events and Characters *)

Evt(id, username, position, rotation, cameraPosition, playerHeight) ==
    [id |-> id, username |-> username, position |-> position, rotation |-> rotation,
     cameraPosition |-> cameraPosition, playerHeight |-> playerHeight]

\* { id }
IdEvt(id) == Evt(id, Undefined, UndefinedVec, UndefinedVec, UndefinedVec, UndefinedNum)

\* character.ts: the fields a Character holds (hash-table variant)
Character(id, username, position, rotation) ==
    [id |-> id, username |-> username, position |-> position, rotation |-> rotation]

\* shared/characters.ts: the Character of the array variant
CharacterArr(id, username, position, rotation) ==
    [id |-> id, username |-> username, position |-> position, rotation |-> rotation,
     cameraPosition |-> Vec(Num(0), Num(0), Num(0)), playerHeight |-> Num(0)]

---------------------------------------------------------------------------
(* The runtime's timeouts: a set of [h, id, left], h the handle setTimeout
   returned, id the character the callback parts, left the ms to the deadline *)

Handles(live) == {t.h : t \in live}

\* setTimeout returns a handle no live timeout has
NewHandle(live) ==
    CHOOSE h \in 1..(Cardinality(live) + 1) :
        /\ h \notin Handles(live)
        /\ \A g \in 1..(h - 1) : g \in Handles(live)

setTimeout(live, h, id) == live \cup {[h |-> h, id |-> id, left |-> characterIdleMs]}

clearTimeout(live, h) == {t \in live : t.h # h}

Elapse(live, d) ==
    {[t EXCEPT !.left = IF @ > d THEN @ - d ELSE 0] : t \in live}

Without(f, key) == [k \in DOMAIN f \ {key} |-> f[k]]

\* a process that is not started
NewProcess == [phase |-> "off"]

---------------------------------------------------------------------------
(* character-manager.ts: the hash-table CharacterManager.
   A manager is [characters, expirationTimers, live]. *)

NewManager == [characters |-> <<>>, expirationTimers |-> <<>>, live |-> {}]

Ret(m, success, error) == [m |-> m, success |-> success, error |-> error]

validationError(field) == field

characterDoesNotExistError == "the character doesn't exist"

cancelExpiration(m, id) ==
    IF id \notin DOMAIN m.expirationTimers
    THEN m
    ELSE [m EXCEPT !.live = clearTimeout(@, m.expirationTimers[id]),
                   !.expirationTimers = Without(@, id)]

\* a scheduleExpiration that leaves the prior timeout running
scheduleExpirationNoCancel(m, id) ==
    IF id \notin DOMAIN m.characters
    THEN m
    ELSE LET h == NewHandle(m.live)
         IN [m EXCEPT !.live = setTimeout(@, h, id),
                      !.expirationTimers = (id :> h) @@ @]

scheduleExpiration(m, id) ==
    IF id \notin DOMAIN m.characters
    THEN m
    ELSE LET c == cancelExpiration(m, id)
             h == NewHandle(c.live)
         IN [c EXCEPT !.live = setTimeout(@, h, id),
                      !.expirationTimers = (id :> h) @@ @]

characterJoin(m, joinEvent) ==
    LET id == joinEvent.id
        username == joinEvent.username
        position == joinEvent.position
        rotation == joinEvent.rotation
    IN  IF ~isValidId(id) THEN Ret(m, FALSE, validationError("id"))
        ELSE IF ~isValidUsername(username) THEN Ret(m, FALSE, validationError("username"))
        ELSE IF isValidVector3ComponentThrows(position) THEN Ret(m, FALSE, "TypeError")
        ELSE IF ~isValidVector3Component(position) THEN Ret(m, FALSE, validationError("position"))
        ELSE IF isValidVector3ComponentThrows(rotation) THEN Ret(m, FALSE, "TypeError")
        ELSE IF ~isValidVector3Component(rotation) THEN Ret(m, FALSE, validationError("rotation"))
        ELSE LET s == scheduleExpiration(m, id)
                 char == Character(id, username, position, rotation)
             IN Ret([s EXCEPT !.characters = (id :> char) @@ @], TRUE, "none")

characterPart(m, partEvent) ==
    LET c == cancelExpiration(m, partEvent.id)
    IN Ret([c EXCEPT !.characters = Without(@, partEvent.id)], TRUE, "none")

\* an updateCharacterUsername that does not look the character up
updateCharacterUsernameNoLookup(m, usernameEvent) ==
    LET id == usernameEvent.id
        username == usernameEvent.username
    IN  IF ~isValidId(id) THEN Ret(m, FALSE, validationError("id"))
        ELSE IF ~isValidUsername(username) THEN Ret(m, FALSE, validationError("username"))
        ELSE Ret(m, TRUE, "none")

updateCharacterUsername(m, usernameEvent) ==
    LET id == usernameEvent.id
        username == usernameEvent.username
    IN  IF ~isValidId(id) THEN Ret(m, FALSE, validationError("id"))
        ELSE IF ~isValidUsername(username) THEN Ret(m, FALSE, validationError("username"))
        ELSE IF id \notin DOMAIN m.characters THEN Ret(m, FALSE, characterDoesNotExistError)
        ELSE LET s == scheduleExpiration(m, id)
             IN Ret([s EXCEPT !.characters[id].username = username], TRUE, "none")

updateCharacterPosition(m, positionEvent) ==
    LET id == positionEvent.id
        position == positionEvent.position
    IN  IF ~isValidId(id) THEN Ret(m, FALSE, validationError("id"))
        ELSE IF isValidVector3ComponentThrows(position) THEN Ret(m, FALSE, "TypeError")
        ELSE IF ~isValidVector3Component(position) THEN Ret(m, FALSE, validationError("position"))
        ELSE IF id \notin DOMAIN m.characters THEN Ret(m, FALSE, characterDoesNotExistError)
        ELSE LET s == scheduleExpiration(m, id)
             IN Ret([s EXCEPT !.characters[id].position = position], TRUE, "none")

updateCharacterRotation(m, rotationEvent) ==
    LET id == rotationEvent.id
        rotation == rotationEvent.rotation
    IN  IF ~isValidId(id) THEN Ret(m, FALSE, validationError("id"))
        ELSE IF isValidVector3ComponentThrows(rotation) THEN Ret(m, FALSE, "TypeError")
        ELSE IF ~isValidVector3Component(rotation) THEN Ret(m, FALSE, validationError("rotation"))
        ELSE IF id \notin DOMAIN m.characters THEN Ret(m, FALSE, characterDoesNotExistError)
        ELSE LET s == scheduleExpiration(m, id)
             IN Ret([s EXCEPT !.characters[id].rotation = rotation], TRUE, "none")

\* a ping that does not look the character up
pingNoLookup(m, pingEvent) ==
    LET id == pingEvent.id
    IN  IF ~isValidId(id) THEN Ret(m, FALSE, validationError("id"))
        ELSE Ret(scheduleExpiration(m, id), TRUE, "none")

\* a ping that answers without restarting the timer
pingNoSchedule(m, pingEvent) ==
    LET id == pingEvent.id
    IN  IF ~isValidId(id) THEN Ret(m, FALSE, validationError("id"))
        ELSE IF id \notin DOMAIN m.characters THEN Ret(m, FALSE, characterDoesNotExistError)
        ELSE Ret(m, TRUE, "none")

ping(m, pingEvent) ==
    LET id == pingEvent.id
    IN  IF ~isValidId(id) THEN Ret(m, FALSE, validationError("id"))
        ELSE IF id \notin DOMAIN m.characters THEN Ret(m, FALSE, characterDoesNotExistError)
        ELSE Ret(scheduleExpiration(m, id), TRUE, "none")

\* Object.keys(characters).map(key => characters[key]): the Characters, as a set
characterList(m) == {m.characters[k] : k \in DOMAIN m.characters}

---------------------------------------------------------------------------
(* shared/characters.ts: the array CharacterManager.
   characters is the array of Characters, expirationTimers the array of
   { id, timer }, live the runtime's timeouts. *)

NewManagerArr == [characters |-> <<>>, expirationTimers |-> <<>>, live |-> {}]

\* lodash find(characters, { id }) !== undefined
existingArr(m, id) == \E i \in 1..Len(m.characters) : m.characters[i].id = id

cancelExpirationArr(m, id) ==
    LET cleared == {m.expirationTimers[i].timer :
                       i \in {j \in 1..Len(m.expirationTimers) : m.expirationTimers[j].id = id}}
        keep(exp) == exp.id # id
    IN [m EXCEPT !.live = {t \in @ : t.h \notin cleared},
                 !.expirationTimers = SelectSeq(@, keep)]

\* a scheduleExpiration that cancels and sets no timeout
scheduleExpirationArrNever(m, id) == cancelExpirationArr(m, id)

scheduleExpirationArr(m, id) ==
    LET c == cancelExpirationArr(m, id)
        h == NewHandle(c.live)
    IN [c EXCEPT !.live = setTimeout(@, h, id),
                 !.expirationTimers = Append(@, [id |-> id, timer |-> h])]

\* characters.map(char => { if (char.id === id) { assign fields }; return char })
mapCharacters(chars, id, fields) ==
    [i \in 1..Len(chars) |-> IF chars[i].id = id THEN fields @@ chars[i] ELSE chars[i]]

\* a join that never looks for an existing Character and always pushes
characterJoinArrPush(m, joinEvent) ==
    LET id == joinEvent.id
        username == joinEvent.username
        rotation == joinEvent.rotation
    IN  IF /\ ~isValidIdArr(id)
           /\ ~isValidUsernameArr(username)
           /\ ~isValidVector3Component(joinEvent.position)
           /\ ~isValidVector3Component(rotation)
        THEN Ret(m, FALSE, "rejected")
        ELSE IF joinEvent.position.k = "undefined" THEN Ret(m, FALSE, "TypeError")
        ELSE LET position == clampVector3(joinEvent.position)
                 s == scheduleExpirationArr(m, id)
             IN Ret([s EXCEPT !.characters =
                        Append(@, CharacterArr(id, username, position, rotation))],
                    TRUE, "none")

characterJoinArr(m, joinEvent) ==
    LET id == joinEvent.id
        username == joinEvent.username
        rotation == joinEvent.rotation
        existing == existingArr(m, id)
    IN  IF /\ ~isValidIdArr(id)
           /\ ~isValidUsernameArr(username)
           /\ ~isValidVector3Component(joinEvent.position)
           /\ ~isValidVector3Component(rotation)
        THEN Ret(m, FALSE, "rejected")
        ELSE IF joinEvent.position.k = "undefined" THEN Ret(m, FALSE, "TypeError")
        ELSE LET position == clampVector3(joinEvent.position)
                 s == scheduleExpirationArr(m, id)
                 set == [username |-> username, position |-> position, rotation |-> rotation]
             IN IF ~existing
                THEN Ret([s EXCEPT !.characters =
                             Append(@, CharacterArr(id, username, position, rotation))],
                         TRUE, "none")
                ELSE Ret([s EXCEPT !.characters = mapCharacters(@, id, set)], TRUE, "none")

characterPartArr(m, partEvent) ==
    LET c == cancelExpirationArr(m, partEvent.id)
        keep(char) == char.id # partEvent.id
    IN Ret([c EXCEPT !.characters = SelectSeq(@, keep)], TRUE, "none")

updateCharacterUsernameArr(m, usernameEvent) ==
    LET id == usernameEvent.id
        username == usernameEvent.username
        set == [username |-> username]
    IN  IF \/ ~isValidIdArr(id)
           \/ ~isValidUsernameArr(username)
           \/ ~existingArr(m, id)
        THEN Ret(m, FALSE, "rejected")
        ELSE Ret([scheduleExpirationArr(m, id) EXCEPT !.characters = mapCharacters(@, id, set)],
                 TRUE, "none")

updateCharacterPositionArr(m, positionEvent) ==
    LET id == positionEvent.id
        position == clampVector3(positionEvent.position)
        cameraPosition == clampVector3(positionEvent.cameraPosition)
        playerHeight == clampNumber(positionEvent.playerHeight)
        set == [position |-> position, cameraPosition |-> cameraPosition,
                playerHeight |-> playerHeight]
    IN  IF \/ ~isValidIdArr(id)
           \/ ~isValidVector3Component(positionEvent.position)
           \/ ~isValidVector3Component(positionEvent.cameraPosition)
           \/ ~isNumber(positionEvent.playerHeight)
           \/ ~existingArr(m, id)
        THEN Ret(m, FALSE, "rejected")
        ELSE Ret([scheduleExpirationArr(m, id) EXCEPT !.characters = mapCharacters(@, id, set)],
                 TRUE, "none")

updateCharacterRotationArr(m, rotationEvent) ==
    LET id == rotationEvent.id
        rotation == rotationEvent.rotation
        set == [rotation |-> rotation]
    IN  IF \/ ~isValidIdArr(id)
           \/ ~isValidVector3Component(rotation)
           \/ ~existingArr(m, id)
        THEN Ret(m, FALSE, "rejected")
        ELSE Ret([scheduleExpirationArr(m, id) EXCEPT !.characters = mapCharacters(@, id, set)],
                 TRUE, "none")

pingArr(m, pingEvent) ==
    IF ~isValidIdArr(pingEvent.id)
    THEN Ret(m, FALSE, "rejected")
    ELSE Ret(scheduleExpirationArr(m, pingEvent.id), TRUE, "none")

\* ids(): the ids of the Characters, in array order
ids(m) == [i \in 1..Len(m.characters) |-> m.characters[i].id]

---------------------------------------------------------------------------
(* Inputs *)

TicksPerIdle == 3

\* the clock advances in steps of TickMs
TickMs == characterIdleMs \div TicksPerIdle

ID1 == IdPrefix \o <<"0","0","0","0","1">>
ID2 == IdPrefix \o <<"0","0","0","0","2">>
IDShort == IdPrefix \o <<"1","2","3","4">>

Alice == <<"a","l","i","c","e">>
Bob == <<"b","o","b">>
TooShort == <<"a","b">>

P101 == Vec(Num(1), Num(0), Num(1))
POut == Vec(Num(11), Num(0), Num(-12))
VNaN == Vec(NaN, Num(0), Num(0))
R000 == Vec(Num(0), Num(0), Num(0))

AllIds == {ID1, ID2, IDShort}

\* the array manager admits invalid fields, so it is driven with fewer values
Ids == IF variant = "hash" THEN AllIds ELSE {ID1, IDShort}
Usernames == IF variant = "hash" THEN {Alice, Bob, TooShort} ELSE {Alice, TooShort}
Positions == IF variant = "hash" THEN {P101, POut, VNaN, UndefinedVec} ELSE {P101, POut, UndefinedVec}
Rotations == {R000, VNaN}

JoinEvents ==
    {Evt(id, u, p, r, UndefinedVec, UndefinedNum) :
        id \in Ids, u \in Usernames, p \in Positions, r \in Rotations}
UsernameEvents ==
    {Evt(id, u, UndefinedVec, UndefinedVec, UndefinedVec, UndefinedNum) :
        id \in Ids, u \in Usernames}
PositionEvents ==
    {Evt(id, Undefined, p, UndefinedVec, c, h) :
        id \in Ids, p \in Positions, c \in {R000, UndefinedVec}, h \in {Num(0)}}
RotationEvents ==
    {Evt(id, Undefined, UndefinedVec, r, UndefinedVec, UndefinedNum) :
        id \in Ids, r \in Rotations}
IdEvents == {IdEvt(id) : id \in Ids}

---------------------------------------------------------------------------
(* server/http-ws-worker.ts: the session worker.  One process holds one
   hash-table CharacterManager; every socket has its closure: characterId
   and the throttled introduceCharacters.  A handler is an operator from the
   manager and the sockets to the new manager, the new sockets, the messages
   it emits and whether it threw. *)

Sockets == {"a", "b"}

\* throttle(..., 1000)
ThrottleMs == 1000

\* lodash throttle = debounce with leading, trailing and maxWait = wait; the
\* times are kept relative to now and saturate at ThrottleMs
NewThrottle ==
    [timerId |-> FALSE, left |-> 0, lastArgs |-> FALSE,
     sinceCall |-> ThrottleMs, sinceInvoke |-> ThrottleMs]

NewConn == [connected |-> FALSE, characterId |-> Undefined, introduce |-> NewThrottle]

shouldInvoke(t) == t.sinceCall >= ThrottleMs \/ t.sinceInvoke >= ThrottleMs

remainingWait(t) ==
    IF ThrottleMs - t.sinceCall < ThrottleMs - t.sinceInvoke
    THEN ThrottleMs - t.sinceCall ELSE ThrottleMs - t.sinceInvoke

\* a call of the throttled function: [t, invoked]
debounced(t) ==
    IF shouldInvoke(t)
    THEN [t |-> [timerId |-> TRUE, left |-> ThrottleMs, lastArgs |-> FALSE,
                 sinceCall |-> 0, sinceInvoke |-> 0],
          invoked |-> TRUE]
    ELSE [t |-> [t EXCEPT !.lastArgs = TRUE, !.sinceCall = 0,
                          !.timerId = TRUE,
                          !.left = IF t.timerId THEN @ ELSE ThrottleMs],
          invoked |-> FALSE]

\* the throttle's timeout runs: [t, invoked]
timerExpired(t) ==
    IF shouldInvoke(t)
    THEN [t |-> [t EXCEPT !.timerId = FALSE, !.left = 0, !.lastArgs = FALSE,
                          !.sinceInvoke = IF t.lastArgs THEN 0 ELSE @],
          invoked |-> t.lastArgs]
    ELSE [t |-> [t EXCEPT !.left = remainingWait(t)], invoked |-> FALSE]

elapseThrottle(t, d) ==
    [t EXCEPT !.left = IF @ > d THEN @ - d ELSE 0,
              !.sinceCall = IF @ + d >= ThrottleMs THEN ThrottleMs ELSE @ + d,
              !.sinceInvoke = IF @ + d >= ThrottleMs THEN ThrottleMs ELSE @ + d]

Emit(to, name, evt) == [to |-> to, name |-> name, evt |-> evt]

Connected(conns) == {c \in Sockets : conns[c].connected}

\* socket.broadcast.emit(name, evt): every connected socket but c
broadcastEmit(conns, c, name, evt) == {Emit(d, name, evt) : d \in Connected(conns) \ {c}}

\* socketServer.emit(name, evt): every connected socket
serverEmit(conns, name, evt) == {Emit(d, name, evt) : d \in Connected(conns)}

\* a Character as socket.io serialises it
toEvent(char) ==
    Evt(char.id, char.username, char.position, char.rotation, UndefinedVec, UndefinedNum)

\* an introduceCharacters that does not filter the socket's own character
introduceCharactersAll(m, conns, c) ==
    IF ~conns[c].connected THEN {}
    ELSE {Emit(c, "character-join", toEvent(char)) : char \in characterList(m)}

\* the function introduceCharacters throttles
introduceCharacters(m, conns, c) ==
    IF ~conns[c].connected THEN {}
    ELSE {Emit(c, "character-join", toEvent(char)) :
             char \in {x \in characterList(m) : x.id # conns[c].characterId}}

HRet(m, conns, emits, thrown) == [m |-> m, conns |-> conns, emits |-> emits, thrown |-> thrown]

\* socket.on("introduce") and the call at the end of an accepted join
onIntroduce(m, conns, c) ==
    LET th == debounced(conns[c].introduce)
        after == [conns EXCEPT ![c].introduce = th.t]
    IN HRet(m, after, IF th.invoked THEN introduceCharacters(m, after, c) ELSE {}, FALSE)

onThrottleTimer(m, conns, c) ==
    LET th == timerExpired(conns[c].introduce)
        after == [conns EXCEPT ![c].introduce = th.t]
    IN HRet(m, after, IF th.invoked THEN introduceCharacters(m, after, c) ELSE {}, FALSE)

\* a disconnect handler that only tells the others
onDisconnectEmitOnly(m, conns, c) ==
    LET characterId == conns[c].characterId
        after == [conns EXCEPT ![c] = NewConn]
    IN IF characterId # Undefined
       THEN HRet(m, after, serverEmit(after, "character-part", IdEvt(characterId)), FALSE)
       ELSE HRet(m, after, {}, FALSE)

onDisconnect(m, conns, c) ==
    LET characterId == conns[c].characterId
        after == [conns EXCEPT ![c] = NewConn]
    IN IF characterId # Undefined
       THEN HRet(characterPart(m, IdEvt(characterId)).m, after,
                 serverEmit(after, "character-part", IdEvt(characterId)), FALSE)
       ELSE HRet(m, after, {}, FALSE)

\* a join handler that emits with socketServer.emit
onCharacterJoinEcho(m, conns, c, evt) ==
    LET r == characterJoin(m, evt)
    IN IF r.error = "TypeError" THEN HRet(m, conns, {}, TRUE)
       ELSE IF r.success
       THEN LET i == onIntroduce(r.m, [conns EXCEPT ![c].characterId = evt.id], c)
            IN HRet(r.m, i.conns,
                    serverEmit(conns, "character-join", evt) \cup i.emits, FALSE)
       ELSE HRet(m, conns, {}, FALSE)

onCharacterJoin(m, conns, c, evt) ==
    LET r == characterJoin(m, evt)
    IN IF r.error = "TypeError" THEN HRet(m, conns, {}, TRUE)
       ELSE IF r.success
       THEN LET i == onIntroduce(r.m, [conns EXCEPT ![c].characterId = evt.id], c)
            IN HRet(r.m, i.conns,
                    broadcastEmit(conns, c, "character-join", evt) \cup i.emits, FALSE)
       ELSE HRet(m, conns, {}, FALSE)

\* the Registry update a handler calls
registryUpdate(m, name, evt) ==
    CASE name = "character-username" -> updateCharacterUsername(m, evt)
      [] name = "character-position" -> updateCharacterPosition(m, evt)
      [] name = "character-rotation" -> updateCharacterRotation(m, evt)

\* update handlers that broadcast whatever the Registry answered
onCharacterUpdateAlways(m, conns, c, name, evt) ==
    LET r == registryUpdate(m, name, evt)
    IN IF r.error = "TypeError" THEN HRet(m, conns, {}, TRUE)
       ELSE HRet(r.m, conns, broadcastEmit(conns, c, name, evt), FALSE)

\* the username, position and rotation handlers
onCharacterUpdate(m, conns, c, name, evt) ==
    LET r == registryUpdate(m, name, evt)
    IN IF r.error = "TypeError" THEN HRet(m, conns, {}, TRUE)
       ELSE IF r.success
       THEN HRet(r.m, conns, broadcastEmit(conns, c, name, evt), FALSE)
       ELSE HRet(m, conns, {}, FALSE)

\* the callback of the expiration timeout t, () => this.characterPart({ id })
onExpire(m, conns, t) ==
    HRet(characterPart([m EXCEPT !.live = @ \ {t}], IdEvt(t.id)).m, conns, {}, FALSE)

onCharacterPing(m, conns, c, evt) ==
    LET r == ping(m, evt)
    IN HRet(r.m, conns, {}, FALSE)

---------------------------------------------------------------------------
(* EventEmitter bindings of the CharacterManager constructor *)

\* the operation `op` of the manager variant under test
Call(m, op, evt) ==
    IF variant = "hash"
    THEN CASE op = "character-join" -> characterJoin(m, evt)
           [] op = "character-part" -> characterPart(m, evt)
           [] op = "character-username" -> updateCharacterUsername(m, evt)
           [] op = "character-position" -> updateCharacterPosition(m, evt)
           [] op = "character-rotation" -> updateCharacterRotation(m, evt)
           [] op = "character-ping" -> ping(m, evt)
    ELSE CASE op = "character-join" -> characterJoinArr(m, evt)
           [] op = "character-part" -> characterPartArr(m, evt)
           [] op = "character-username" -> updateCharacterUsernameArr(m, evt)
           [] op = "character-position" -> updateCharacterPositionArr(m, evt)
           [] op = "character-rotation" -> updateCharacterRotationArr(m, evt)
           [] op = "character-ping" -> pingArr(m, evt)

---------------------------------------------------------------------------
(* The Redis fan-out worker (server/redis-ws-worker).  Every worker process
   holds one array CharacterManager and its sockets; a worker is
   [m, conns, up].  A channel entry is [msg, pending]: the published message
   and the subscribers still to receive it. *)

\* cluster.worker.id.toString() of the workers
Workers == {"1", "2"}

\* the sockets that may connect to a worker
SocketsOf(w) == IF w = "1" THEN {"a"} ELSE {"c"}

\* watched from the client and from the other workers
socketEvents ==
    {"character-join", "character-username", "character-position",
     "character-rotation", "character-ping"}

NewWorker == [m |-> NewManagerArr, conns |-> {}, up |-> TRUE]

\* JSON has no NaN, no Infinity (they are written as null) and no undefined
\* (the property is left out and reads undefined after parsing)
jsonNumber(n) == IF n.k \in {"NaN", "Infinity"} THEN NullNum ELSE n
jsonVector(v) ==
    IF v.k = "undefined" THEN v
    ELSE [v EXCEPT !.x = jsonNumber(@), !.y = jsonNumber(@), !.z = jsonNumber(@)]

\* JSON.parse(JSON.stringify({ workerId, evtName, evt })): the text of a
\* message is represented by the value it parses to
workerMessage(workerId, evtName, evt) ==
    [workerId |-> workerId, evtName |-> evtName,
     evt |-> [evt EXCEPT !.position = jsonVector(@), !.rotation = jsonVector(@),
                         !.cameraPosition = jsonVector(@),
                         !.playerHeight = jsonNumber(@)]]

\* a text on the channel that is not JSON stands in the model as a message
\* with no worker, no name and no payload; JSON.parse throws on it
NotJson == [workerId |-> "", evtName |-> "", evt |-> IdEvt(Undefined)]
parseThrows(msg) == msg = NotJson

FRet(m, emits, published, thrown) ==
    [m |-> m, emits |-> emits, published |-> published, thrown |-> thrown]

\* socket.on(evtName, evt => ...) of worker w
onSocketEvent(wk, w, evtName, evt) ==
    LET emits == {Emit(d, evtName, evt) : d \in wk.conns}
        r == Call(wk.m, evtName, evt)
    IN IF r.error = "TypeError" THEN FRet(wk.m, emits, <<>>, TRUE)
       ELSE FRet(r.m, emits, <<workerMessage(w, evtName, evt)>>, FALSE)

\* a message of a socket: socket.io runs the listeners bound to its name, and
\* only the names of socketEvents have one
onClientEvent(wk, w, evtName, evt) ==
    IF evtName \in socketEvents
    THEN onSocketEvent(wk, w, evtName, evt)
    ELSE FRet(wk.m, {}, <<>>, FALSE)

\* a socket closes: no listener is bound to "disconnect"
onSocketClose(wk, w, c) == FRet(wk.m, {}, <<>>, FALSE)

\* a subscriber that handles its own messages too
subMessageNoSkip(wk, w, msg) ==
    LET r == Call(wk.m, msg.evtName, msg.evt)
    IN FRet(r.m, {Emit(d, msg.evtName, msg.evt) : d \in wk.conns}, <<>>,
            r.error = "TypeError")

\* a subscriber that publishes what it handled
subMessageRepublish(wk, w, msg) ==
    IF msg.workerId = w THEN FRet(wk.m, {}, <<>>, FALSE)
    ELSE LET r == Call(wk.m, msg.evtName, msg.evt)
         IN FRet(r.m, {Emit(d, msg.evtName, msg.evt) : d \in wk.conns},
                 <<workerMessage(w, msg.evtName, msg.evt)>>, r.error = "TypeError")

\* a subscriber whose JSON.parse is not in a try block
subMessageNoCatch(wk, w, msg) ==
    IF parseThrows(msg) THEN FRet(wk.m, {}, <<>>, TRUE)
    ELSE IF msg.workerId = w THEN FRet(wk.m, {}, <<>>, FALSE)
    ELSE LET r == Call(wk.m, msg.evtName, msg.evt)
         IN FRet(r.m, {Emit(d, msg.evtName, msg.evt) : d \in wk.conns}, <<>>,
                 r.error = "TypeError")

\* sub.on("message", subMessage) of worker w
subMessage(wk, w, msg) ==
    IF parseThrows(msg) THEN FRet(wk.m, {}, <<>>, FALSE)
    ELSE IF msg.workerId = w THEN FRet(wk.m, {}, <<>>, FALSE)
    ELSE LET r == Call(wk.m, msg.evtName, msg.evt)
         IN FRet(r.m, {Emit(d, msg.evtName, msg.evt) : d \in wk.conns}, <<>>,
                 r.error = "TypeError")

\* socketServerConnection: the new socket is sent every Character
onConnection(wk, c) ==
    {Emit(c, "character-join", wk.m.characters[i]) : i \in 1..Len(wk.m.characters)}

---------------------------------------------------------------------------
(* The registry harness: the operations of one CharacterManager called
   directly, the clock, and the runtime firing due timeouts. *)

\* the ids that have a Character
present(m) ==
    IF variant = "hash" THEN DOMAIN m.characters
    ELSE {m.characters[i].id : i \in 1..Len(m.characters)}

\* ghost: an accepted event for id restarts its idle clock
Touch(h, m, op, evt, r) ==
    IF ~r.success THEN h
    ELSE [idle |-> [i \in DOMAIN h.idle |-> IF i = evt.id THEN 0 ELSE h.idle[i]],
          joined |-> CASE op = "character-join" -> h.joined \cup {evt.id}
                       [] op = "character-part" -> h.joined \ {evt.id}
                       [] OTHER -> h.joined,
          rejoined |-> CASE op = "character-join" /\ evt.id \in present(m) ->
                              h.rejoined \cup {evt.id}
                         [] op = "character-part" -> h.rejoined \ {evt.id}
                         [] OTHER -> h.rejoined]

Do(op, evt) ==
    LET r == Call(reg, op, evt)
    IN /\ reg' = r.m
       /\ hist' = Touch(hist, reg, op, evt, r)
       /\ UNCHANGED <<variant, sconns, up, sent, fw, chan, events, proc>>

Join == \E evt \in JoinEvents : Do("character-join", evt)
Part == \E evt \in IdEvents : Do("character-part", evt)
Username == \E evt \in UsernameEvents : Do("character-username", evt)
Position == \E evt \in PositionEvents : Do("character-position", evt)
Rotation == \E evt \in RotationEvents : Do("character-rotation", evt)
Ping == \E evt \in IdEvents : Do("character-ping", evt)

\* TickMs pass: every live timeout comes TickMs closer to its deadline
Tick ==
    /\ reg' = [reg EXCEPT !.live = Elapse(@, TickMs)]
    /\ hist' = [hist EXCEPT !.idle =
                   [i \in DOMAIN @ |-> IF i \notin present(reg) THEN 0
                                       ELSE IF @[i] + TickMs >= characterIdleMs
                                       THEN characterIdleMs ELSE @[i] + TickMs]]
    /\ UNCHANGED <<variant, sconns, up, sent, fw, chan, events, proc>>

\* a due timeout runs its callback, () => this.characterPart({ id })
TimerFireOf(id) ==
    \E t \in reg.live :
        /\ t.id = id
        /\ t.left = 0
        /\ LET r == Call([reg EXCEPT !.live = @ \ {t}], "character-part", IdEvt(t.id))
           IN /\ reg' = r.m
              /\ hist' = [hist EXCEPT !.joined = @ \ {t.id}, !.rejoined = @ \ {t.id}, !.idle[t.id] = 0]
        /\ UNCHANGED <<variant, sconns, up, sent, fw, chan, events, proc>>

TimerFire == \E id \in AllIds : TimerFireOf(id)

Init ==
    /\ variant \in {"hash", "array"}
    /\ reg = NewManager
    /\ hist = [idle |-> [i \in AllIds |-> 0], joined |-> {}, rejoined |-> {}]
    /\ sconns = [c \in Sockets |-> NewConn]
    /\ up = TRUE
    /\ sent = {}
    /\ fw = [w \in Workers |-> NewWorker]
    /\ chan = <<>>
    /\ events = 0
    /\ proc = NewProcess

Next ==
    \/ Join
    \/ Part
    \/ Username
    \/ Position
    \/ Rotation
    \/ Ping
    \/ Tick
    \/ TimerFire

Spec == Init /\ [][Next]_vars

\* the runtime runs the callback of every due timeout, and time passes
FairSpec == Spec /\ WF_vars(Tick) /\ \A id \in AllIds : WF_vars(TimerFireOf(id))

---------------------------------------------------------------------------
(* Claims on the registry *)

ValidIds == {id \in AllIds : validIdPattern(id)}

\* the number of Characters of manager m that carry id
CountId(m, id) ==
    IF variant = "hash"
    THEN Cardinality({k \in DOMAIN m.characters : m.characters[k].id = id})
    ELSE Cardinality({i \in 1..Len(m.characters) : m.characters[i].id = id})

\* the Character of manager m that carries id
CharOf(m, id) ==
    IF variant = "hash"
    THEN m.characters[CHOOSE k \in DOMAIN m.characters : m.characters[k].id = id]
    ELSE m.characters[CHOOSE i \in 1..Len(m.characters) : m.characters[i].id = id]

\* the live timeouts whose callback parts id
LiveFor(m, id) == {t \in m.live : t.id = id}

\* C1: in the hash-table manager, an id whose join was accepted and that then
\* stays without an accepted event for characterIdleMs is eventually removed
\* from characterList() (or an accepted event restarts its idle period).
C1_IdleRemoved ==
    \A id \in ValidIds :
        (variant = "hash" /\ id \in hist.joined /\ hist.idle[id] >= characterIdleMs)
            ~> (id \notin present(reg) \/ hist.idle[id] < characterIdleMs)

\* C2: in the hash-table manager, expirationTimers has an entry for an id
\* exactly when characters has one.
C2_TimerIffCharacter ==
    variant = "hash" => DOMAIN reg.expirationTimers = DOMAIN reg.characters

\* the payload is valid for the manager variant under test
ValidJoin(evt) ==
    /\ validIdPattern(evt.id)
    /\ validUsernamePattern(evt.username)
    /\ isValidVector3Component(evt.position)
    /\ isValidVector3Component(evt.rotation)

StoredPosition(evt) ==
    IF variant = "hash" THEN evt.position ELSE clampVector3(evt.position)

Size(m) == IF variant = "hash" THEN Cardinality(DOMAIN m.characters) ELSE Len(m.characters)

\* C3: in both managers, an id whose join was accepted (and that was not
\* parted or expired since) has exactly one Character; a join with a valid
\* payload succeeds, leaves exactly one Character with its id, holding the
\* submitted username, position and rotation, and adds an entry only when
\* the id was absent.
C3_JoinUpsert ==
    /\ \A id \in hist.joined : CountId(reg, id) = 1
    /\ \A id \in AllIds : CountId(reg, id) <= 1
    /\ \A evt \in JoinEvents :
          ValidJoin(evt) =>
             LET r == Call(reg, "character-join", evt)
             IN /\ r.success
                /\ CountId(r.m, evt.id) = 1
                /\ CharOf(r.m, evt.id).username = evt.username
                /\ CharOf(r.m, evt.id).position = StoredPosition(evt)
                /\ CharOf(r.m, evt.id).rotation = evt.rotation
                /\ Size(r.m) = Size(reg) + (IF evt.id \in present(reg) THEN 0 ELSE 1)

\* a join was accepted for an id that already had a Character, with another username
C3_Witness ==
    /\ variant = "array"
    /\ ID1 \in hist.rejoined
    /\ Len(reg.characters) = 2
    /\ CountId(reg, ID1) = 1
    /\ CharOf(reg, ID1).position = clampVector3(POut)

---------------------------------------------------------------------------
(* The session worker: clients connect, send events and disconnect, the
   clock advances, the runtime fires due timeouts.  The payloads are what
   socket.io can deliver: JSON values, a missing field reading undefined. *)

VNull == Vec(NullNum, Num(0), Num(0))

SessionJoinEvents ==
    {Evt(ID1, Alice, P101, R000, UndefinedVec, UndefinedNum),
     Evt(ID2, Bob, P101, R000, UndefinedVec, UndefinedNum),
     Evt(IDShort, Alice, P101, R000, UndefinedVec, UndefinedNum),
     Evt(ID1, Alice, UndefinedVec, R000, UndefinedVec, UndefinedNum)}
SessionUsernameEvents ==
    {Evt(ID1, u, UndefinedVec, UndefinedVec, UndefinedVec, UndefinedNum) : u \in {Bob, TooShort}}
SessionPositionEvents ==
    {Evt(ID1, Undefined, p, UndefinedVec, UndefinedVec, UndefinedNum) : p \in {POut, VNull}}
SessionRotationEvents ==
    {Evt(ID2, Undefined, UndefinedVec, R000, UndefinedVec, UndefinedNum),
     Evt(ID1, Undefined, UndefinedVec, VNull, UndefinedVec, UndefinedNum)}
SessionPingEvents == {IdEvt(ID1), IdEvt(IDShort)}

\* the events of one name
SessionEvents(name) ==
    CASE name = "character-username" -> SessionUsernameEvents
      [] name = "character-position" -> SessionPositionEvents
      [] name = "character-rotation" -> SessionRotationEvents

UpdateNames == {"character-username", "character-position", "character-rotation"}

\* a handler ran; an exception no one catches ends the process
Handled(r) ==
    /\ up' = ~r.thrown
    /\ reg' = IF r.thrown THEN NewManager ELSE r.m
    /\ sconns' = IF r.thrown THEN [c \in Sockets |-> NewConn] ELSE r.conns
    /\ sent' = r.emits
    /\ UNCHANGED <<variant, hist, fw, chan, events, proc>>

SessionConnect ==
    \E c \in Sockets :
        /\ up
        /\ ~sconns[c].connected
        /\ sconns' = [sconns EXCEPT ![c] = [NewConn EXCEPT !.connected = TRUE]]
        /\ sent' = {}
        /\ UNCHANGED <<variant, reg, hist, up, fw, chan, events, proc>>

SessionDisconnect ==
    \E c \in Connected(sconns) : up /\ Handled(onDisconnect(reg, sconns, c))

SessionJoin ==
    \E c \in Connected(sconns), evt \in SessionJoinEvents :
        up /\ Handled(onCharacterJoin(reg, sconns, c, evt))

SessionUsername ==
    \E c \in Connected(sconns), evt \in SessionUsernameEvents :
        up /\ Handled(onCharacterUpdate(reg, sconns, c, "character-username", evt))

SessionPosition ==
    \E c \in Connected(sconns), evt \in SessionPositionEvents :
        up /\ Handled(onCharacterUpdate(reg, sconns, c, "character-position", evt))

SessionRotation ==
    \E c \in Connected(sconns), evt \in SessionRotationEvents :
        up /\ Handled(onCharacterUpdate(reg, sconns, c, "character-rotation", evt))

SessionPing ==
    \E c \in Connected(sconns), evt \in SessionPingEvents :
        up /\ Handled(onCharacterPing(reg, sconns, c, evt))

SessionIntroduce ==
    \E c \in Connected(sconns) : up /\ Handled(onIntroduce(reg, sconns, c))

\* the throttle's timeout of socket c is due
SessionThrottleTimer ==
    \E c \in Connected(sconns) :
        /\ up
        /\ sconns[c].introduce.timerId
        /\ sconns[c].introduce.left = 0
        /\ Handled(onThrottleTimer(reg, sconns, c))

\* a due expiration runs its callback, () => this.characterPart({ id })
SessionExpire ==
    \E t \in reg.live :
        /\ up
        /\ t.left = 0
        /\ reg' = onExpire(reg, sconns, t).m
        /\ sent' = onExpire(reg, sconns, t).emits
        /\ UNCHANGED <<variant, hist, sconns, up, fw, chan, events, proc>>

\* the session worker's clock advances by idle periods
SessionTick ==
    /\ up
    /\ reg' = [reg EXCEPT !.live = Elapse(@, characterIdleMs)]
    /\ sconns' = [c \in Sockets |->
                     [sconns[c] EXCEPT !.introduce = elapseThrottle(@, characterIdleMs)]]
    /\ sent' = {}
    /\ UNCHANGED <<variant, hist, up, fw, chan, events, proc>>

InitH ==
    /\ variant = "hash"
    /\ reg = NewManager
    /\ hist = [idle |-> [i \in AllIds |-> 0], joined |-> {}, rejoined |-> {}]
    /\ sconns = [c \in Sockets |-> NewConn]
    /\ up = TRUE
    /\ sent = {}
    /\ fw = [w \in Workers |-> NewWorker]
    /\ chan = <<>>
    /\ events = 0
    /\ proc = NewProcess

NextH ==
    \/ SessionConnect
    \/ SessionDisconnect
    \/ SessionJoin
    \/ SessionUsername
    \/ SessionPosition
    \/ SessionRotation
    \/ SessionPing
    \/ SessionIntroduce
    \/ SessionThrottleTimer
    \/ SessionExpire
    \/ SessionTick

SpecH == InitH /\ [][NextH]_vars

---------------------------------------------------------------------------
(* Claims on the session worker *)

JoinAlice == Evt(ID1, Alice, P101, R000, UndefinedVec, UndefinedNum)
NameBob == Evt(ID1, Bob, UndefinedVec, UndefinedVec, UndefinedVec, UndefinedNum)

\* the sockets a handler result emits (name, evt) to
Recipients(r, name, evt) == {e.to : e \in {x \in r.emits : x.name = name /\ x.evt = evt}}

\* C8: when the Registry accepts a character-join from socket c, c's
\* characterId becomes the event's id and the join event goes to every other
\* connected socket and not to c; when the Registry rejects it, the sockets'
\* characterIds and the Registry are unchanged and nothing is emitted.
C8_JoinHandler ==
    up => \A c \in Connected(sconns), evt \in SessionJoinEvents :
            LET r == onCharacterJoin(reg, sconns, c, evt)
                answer == characterJoin(reg, evt)
            IN IF answer.success
               THEN /\ r.m = answer.m
                    /\ r.conns[c].characterId = evt.id
                    /\ \A d \in Sockets \ {c} : r.conns[d] = sconns[d]
                    /\ Recipients(r, "character-join", evt) = Connected(sconns) \ {c}
               ELSE answer.error # "TypeError" =>
                       /\ r.conns = sconns
                       /\ r.m = reg
                       /\ r.emits = {}

\* socket a joined as ID1 while b was connected and ID2 was known: b got the
\* join event, a got the introduction of ID2
C8_Witness ==
    /\ sconns["a"].characterId = ID1
    /\ Emit("b", "character-join", JoinAlice) \in sent
    /\ \E e \in sent : e.to = "a" /\ e.evt.id = ID2
    /\ Emit("a", "character-join", JoinAlice) \notin sent

\* C9: a character-username, character-position or character-rotation event
\* from socket c goes to the other connected sockets exactly when the
\* Registry update succeeded, and never to c; a rejected event leaves the
\* Registry and the sockets unchanged and emits nothing.
C9_UpdateHandlers ==
    up => \A c \in Connected(sconns), name \in UpdateNames :
            \A evt \in SessionEvents(name) :
               LET r == onCharacterUpdate(reg, sconns, c, name, evt)
                   answer == registryUpdate(reg, name, evt)
               IN /\ r.conns = sconns
                  /\ IF answer.success
                     THEN /\ r.m = answer.m
                          /\ r.emits = {Emit(d, name, evt) : d \in Connected(sconns) \ {c}}
                     ELSE answer.error # "TypeError" => r.m = reg /\ r.emits = {}

\* a username update for ID1 was accepted; only socket b was told, a sent it
C9_Witness ==
    /\ sent = {Emit("b", "character-username", NameBob)}
    /\ sconns["a"].connected
    /\ ID1 \in DOMAIN reg.characters
    /\ reg.characters[ID1].username = Bob

\* C10: when a socket whose characterId is X disconnects, the handler removes
\* X's Character and X's expiration timer and emits character-part for X to
\* the connected sockets; when the socket's characterId is undefined (no join
\* of it was accepted), the Registry is unchanged and nothing is emitted.
C10_Disconnect ==
    up => \A c \in Connected(sconns) :
            LET X == sconns[c].characterId
                r == onDisconnect(reg, sconns, c)
            IN /\ ~r.conns[c].connected
               /\ IF X # Undefined
                  THEN /\ X \notin DOMAIN r.m.characters
                       /\ X \notin DOMAIN r.m.expirationTimers
                       /\ LiveFor(r.m, X) = {}
                       /\ r.emits = {Emit(d, "character-part", IdEvt(X)) :
                                        d \in Connected(sconns) \ {c}}
                  ELSE r.m = reg /\ r.emits = {}

\* socket a, joined as ID1, disconnected: b was told and ID1 is gone while
\* b's character stays
C10_Witness ==
    /\ sent = {Emit("b", "character-part", IdEvt(ID1))}
    /\ ~sconns["a"].connected
    /\ ID1 \notin DOMAIN reg.characters
    /\ sconns["b"].characterId = ID2
    /\ ID2 \in DOMAIN reg.characters

---------------------------------------------------------------------------
(* The fan-out workers: clients connect to a worker and send events, the
   channel delivers every message to every subscribed worker, the clock
   advances, the runtime of each worker fires its due timeouts. *)

MaxEvents == 2

JoinNoPosition == Evt(ID1, Alice, UndefinedVec, R000, UndefinedVec, UndefinedNum)
PositionOut == Evt(ID1, Undefined, POut, UndefinedVec, R000, Num(0))
RotationNull == Evt(ID1, Undefined, UndefinedVec, VNull, UndefinedVec, UndefinedNum)

\* the payloads clients send under one event name
FanEvents(evtName) ==
    CASE evtName = "character-join" -> {JoinAlice, JoinNoPosition}
      [] evtName = "character-username" -> {NameBob}
      [] evtName = "character-position" -> {PositionOut}
      [] evtName = "character-rotation" -> {RotationNull}
      [] evtName = "character-ping" -> {IdEvt(ID1)}

Running == {w \in Workers : fw[w].up}

\* an uncaught exception ends the worker process
Crashed == [m |-> NewManagerArr, conns |-> {}, up |-> FALSE]

\* the entries no subscriber waits for leave the channel
Settle(ch) == SelectSeq(ch, LAMBDA e : e.pending # {})

\* the channel after worker w published msgs and the workers in gone ended
Channel(ch, msgs, gone) ==
    Settle([i \in 1..Len(ch) |-> [ch[i] EXCEPT !.pending = @ \ gone]]
           \o [i \in 1..Len(msgs) |-> [msg |-> msgs[i], pending |-> Running \ gone]])

\* worker w ran a handler with result r
Ran(w, r, ch) ==
    /\ fw' = [fw EXCEPT ![w] = IF r.thrown THEN Crashed ELSE [@ EXCEPT !.m = r.m]]
    /\ chan' = Channel(ch, r.published, IF r.thrown THEN {w} ELSE {})

FanConnect ==
    \E w \in Running : \E c \in SocketsOf(w) \ fw[w].conns :
        /\ fw' = [fw EXCEPT ![w].conns = @ \cup {c}]
        /\ UNCHANGED <<variant, reg, hist, sconns, up, sent, chan, events, proc>>

FanDisconnect ==
    \E w \in Running : \E c \in fw[w].conns :
        /\ fw' = [fw EXCEPT ![w].conns = @ \ {c}]
        /\ UNCHANGED <<variant, reg, hist, sconns, up, sent, chan, events, proc>>

\* a client of worker w sends an event
FanSocketEvent ==
    \E w \in Running : \E c \in fw[w].conns : \E evtName \in socketEvents :
        \E evt \in FanEvents(evtName) :
            /\ events < MaxEvents
            /\ events' = events + 1
            /\ Ran(w, onSocketEvent(fw[w], w, evtName, evt), chan)
            /\ UNCHANGED <<variant, reg, hist, sconns, up, sent, proc>>

\* the channel hands worker w one of the messages it has yet to get
FanDeliverTo(w) ==
    \E i \in 1..Len(chan) :
        /\ fw[w].up
        /\ w \in chan[i].pending
        /\ Ran(w, subMessage(fw[w], w, chan[i].msg),
               [chan EXCEPT ![i].pending = @ \ {w}])
        /\ UNCHANGED <<variant, reg, hist, sconns, up, sent, events, proc>>

FanDeliver == \E w \in Workers : FanDeliverTo(w)

\* a due expiration of worker w runs its callback
FanExpireOf(w) ==
    \E t \in fw[w].m.live :
        /\ fw[w].up
        /\ t.left = 0
        /\ fw' = [fw EXCEPT ![w].m =
                     characterPartArr([@ EXCEPT !.live = @ \ {t}], IdEvt(t.id)).m]
        /\ UNCHANGED <<variant, reg, hist, sconns, up, sent, chan, events, proc>>

FanExpire == \E w \in Workers : FanExpireOf(w)

\* an idle period passes on every worker
FanTick ==
    /\ fw' = [w \in Workers |-> [fw[w] EXCEPT !.m.live = Elapse(@, characterIdleMs)]]
    /\ UNCHANGED <<variant, reg, hist, sconns, up, sent, chan, events, proc>>

InitF ==
    /\ variant = "array"
    /\ reg = NewManager
    /\ hist = [idle |-> [i \in AllIds |-> 0], joined |-> {}, rejoined |-> {}]
    /\ sconns = [c \in Sockets |-> NewConn]
    /\ up = TRUE
    /\ sent = {}
    /\ fw = [w \in Workers |-> NewWorker]
    /\ chan = <<>>
    /\ events = 0
    /\ proc = NewProcess

NextF ==
    \/ FanConnect
    \/ FanDisconnect
    \/ FanSocketEvent
    \/ FanDeliver
    \/ FanExpire
    \/ FanTick

SpecF == InitF /\ [][NextF]_vars

\* the channel delivers, the runtimes run due timeouts, time passes
FairSpecF ==
    /\ SpecF
    /\ WF_vars(FanTick)
    /\ \A w \in Workers : WF_vars(FanDeliverTo(w)) /\ WF_vars(FanExpireOf(w))

---------------------------------------------------------------------------
(* Claims on the fan-out workers *)

\* the channel messages worker w has yet to get
PendingFor(w) == {chan[i].msg : i \in {j \in 1..Len(chan) : w \in chan[j].pending}}

\* id, username, position and rotation of the Characters of worker w
Registry(w) ==
    {Character(ch.id, ch.username, ch.position, ch.rotation) :
        ch \in {fw[w].m.characters[i] : i \in 1..Len(fw[w].m.characters)}}

\* the ms left on the live timeouts of worker w for id
TimerLeft(w, id) == {t.left : t \in {x \in fw[w].m.live : x.id = id}}

UsernameAt(w, id) == {ch.username : ch \in {x \in Registry(w) : x.id = id}}

\* C4: a channel message carrying the receiving worker's own id changes
\* nothing in its CharacterManager and emits nothing; a message of another
\* worker is handed to the CharacterManager and emitted to every local socket.
C4_SkipOwn ==
    \A w \in Running : \A msg \in PendingFor(w) :
        LET r == subMessage(fw[w], w, msg)
        IN /\ ~r.thrown
           /\ IF msg.workerId = w
              THEN r.m = fw[w].m /\ r.emits = {}
              ELSE /\ r.m = Call(fw[w].m, msg.evtName, msg.evt).m
                   /\ r.emits = {Emit(d, msg.evtName, msg.evt) : d \in fw[w].conns}

\* one join, sent to worker 1; an idle period later the channel delivered it:
\* worker 2 applied it (fresh timer), worker 1 skipped it (its timer is due)
C4_Witness ==
    /\ events = 1
    /\ chan = <<>>
    /\ Registry("1") = Registry("2")
    /\ UsernameAt("1", ID1) = {Alice}
    /\ TimerLeft("1", ID1) = {0}
    /\ TimerLeft("2", ID1) = {characterIdleMs}

\* C5: handling a channel message publishes nothing; the channel gets a
\* message only in a step that handles a client event, one message per event.
C5_NoRepublish ==
    /\ [](\A w \in Running : \A msg \in PendingFor(w) :
              subMessage(fw[w], w, msg).published = <<>>)
    /\ [][Len(chan') > Len(chan) => (events' = events + 1 /\ Len(chan') = Len(chan) + 1)]_vars

\* two client events went through the channel to the other worker and the
\* channel is empty again
C5_Witness ==
    /\ events = 2
    /\ chan = <<>>
    /\ UsernameAt("1", ID1) = {Bob}
    /\ UsernameAt("2", ID1) = {Bob}

\* C6: a client event the CharacterManager does not accept is neither
\* emitted to a socket nor published.
C6_OnlyAccepted ==
    \A w \in Running : \A evtName \in socketEvents : \A evt \in FanEvents(evtName) :
        fw[w].conns # {} =>
            LET r == onSocketEvent(fw[w], w, evtName, evt)
            IN ~Call(fw[w].m, evtName, evt).success =>
                  r.emits = {} /\ r.published = <<>>

\* the running workers hold the same characters
Consistent == \A v \in Running, w \in Running : Registry(v) = Registry(w)

\* C7: once the clients have sent their last event, the channel delivering
\* every message to every worker, the workers eventually hold the same
\* characters for good.
C7_Converge == <>[]Consistent

\* the clients have sent their last event, the channel is empty, and the two
\* workers hold different usernames for ID1
C7_Witness ==
    /\ events = MaxEvents
    /\ chan = <<>>
    /\ Running = Workers
    /\ UsernameAt("1", ID1) = {Bob}
    /\ UsernameAt("2", ID1) = {Alice}

---------------------------------------------------------------------------
(* Claims on the session worker: expiration *)

\* the expiration timeouts of the session worker that are due
DueTimers == {t \in reg.live : t.left = 0}

\* C11: when the idle timer of X fires on the session worker, X's Character
\* and timer are removed and character-part for X is emitted to the
\* connected sockets, as the disconnect handler does.
C11_ExpiryAnnounced ==
    up => \A t \in DueTimers :
            LET r == onExpire(reg, sconns, t)
            IN /\ t.id \notin DOMAIN r.m.characters
               /\ t.id \notin DOMAIN r.m.expirationTimers
               /\ LiveFor(r.m, t.id) = {}
               /\ r.emits = serverEmit(sconns, "character-part", IdEvt(t.id))

---------------------------------------------------------------------------
(* Claims on the registry: timers, validation, removal *)

\* the operations a client event reaches, and the payloads the harness sends
EventNames ==
    {"character-join", "character-username", "character-position",
     "character-rotation", "character-ping"}

HarnessEvents(op) ==
    CASE op = "character-join" -> JoinEvents
      [] op = "character-username" -> UsernameEvents
      [] op = "character-position" -> PositionEvents
      [] op = "character-rotation" -> RotationEvents
      [] OTHER -> IdEvents

\* C12: in both managers, an accepted event for an existing character leaves
\* its timer at the full idle duration, and no live timer of a character is
\* due before characterIdleMs have passed since its last accepted event (a
\* superseded or cancelled timer is not live any more).
C12_TimerReset ==
    /\ \A t \in reg.live :
          t.id \in present(reg) => t.left + hist.idle[t.id] >= characterIdleMs
    /\ \A op \in EventNames : \A evt \in HarnessEvents(op) :
          LET r == Call(reg, op, evt)
          IN (evt.id \in present(reg) /\ r.success) =>
                {t.left : t \in LiveFor(r.m, evt.id)} = {characterIdleMs}

\* ID1 was joined again while it had a timer, and a tick has passed since:
\* the only live timer is the one of the second join
C12_Witness ==
    /\ ID1 \in hist.rejoined
    /\ hist.idle[ID1] = TickMs
    /\ {t.left : t \in LiveFor(reg, ID1)} = {characterIdleMs - TickMs}


\* scheduleExpiration of the manager in use
schedule(m, id) ==
    IF variant = "hash" THEN scheduleExpiration(m, id) ELSE scheduleExpirationArr(m, id)

\* C13: in both managers there is at most one live timer per character id in
\* every reachable state, and two sequential scheduleExpiration calls for the
\* same id leave exactly one live timer for it.
C13_OneTimer ==
    /\ \A id \in AllIds : Cardinality(LiveFor(reg, id)) <= 1
    /\ \A id \in ValidIds :
          Cardinality(LiveFor(schedule(schedule(reg, id), id), id)) = 1


\* the registry of manager m is left as manager n has it
Unchanged(m, n) ==
    /\ m.characters = n.characters
    /\ m.expirationTimers = n.expirationTimers
    /\ m.live = n.live

\* C14: in the hash-table manager, every operation called with an id that
\* does not match the id pattern (characterJoin, characterPart, the three
\* updates and ping) fails with the validation error and leaves characters
\* and expirationTimers unchanged.
C14_InvalidIdFails ==
    variant = "hash" =>
        \A op \in EventNames \cup {"character-part"} :
            \A evt \in HarnessEvents(op) :
                LET r == Call(reg, op, evt)
                IN ~validIdPattern(evt.id) =>
                      /\ ~r.success
                      /\ r.error = validationError("id")
                      /\ Unchanged(r.m, reg)


\* the first field of a join payload that does not match its format, in the
\* order id, username, position, rotation
FirstInvalid(evt) ==
    IF ~validIdPattern(evt.id) THEN "id"
    ELSE IF ~validUsernamePattern(evt.username) THEN "username"
    ELSE IF ~isValidVector3Component(evt.position) THEN "position"
    ELSE IF ~isValidVector3Component(evt.rotation) THEN "rotation"
    ELSE "none"

\* C15: in the hash-table manager, a characterJoin with an invalid field is
\* rejected with the validation error naming the first invalid field in the
\* order id, username, position, rotation and changes nothing; a join whose
\* four fields are valid is admitted.
C15_JoinValidation ==
    variant = "hash" =>
        \A evt \in JoinEvents :
            LET r == characterJoin(reg, evt)
                f == FirstInvalid(evt)
            IN IF f = "none"
               THEN r.success
               ELSE /\ ~r.success
                    /\ r.error = validationError(f)
                    /\ Unchanged(r.m, reg)


\* C16: in the array manager, every stored Character has an id matching the
\* id pattern and a username matching the username pattern.
C16_StoredValid ==
    variant = "array" =>
        \A i \in 1..Len(reg.characters) :
            /\ validIdPattern(reg.characters[i].id)
            /\ validUsernamePattern(reg.characters[i].username)


---------------------------------------------------------------------------
(* Claims on the hash-table manager of the session worker *)

\* the field an update names
FieldOf(name) ==
    CASE name = "character-username" -> "username"
      [] name = "character-position" -> "position"
      [] name = "character-rotation" -> "rotation"

\* the payload of an update has a valid id and a valid value
ValidUpdate(name, evt) ==
    /\ validIdPattern(evt.id)
    /\ CASE name = "character-username" -> validUsernamePattern(evt.username)
         [] name = "character-position" -> isValidVector3Component(evt.position)
         [] name = "character-rotation" -> isValidVector3Component(evt.rotation)

\* every timer but the one of id is in n as it is in m, and id has one timer
\* with the full idle duration ahead
Rescheduled(m, n, id) ==
    /\ {t \in n.live : t.id # id} = {t \in m.live : t.id # id}
    /\ {t.left : t \in LiveFor(n, id)} = {characterIdleMs}
    /\ Cardinality(LiveFor(n, id)) = 1
    /\ DOMAIN n.expirationTimers = DOMAIN m.expirationTimers \cup {id}
    /\ \A k \in DOMAIN m.expirationTimers \ {id} :
          n.expirationTimers[k] = m.expirationTimers[k]
    /\ \E t \in LiveFor(n, id) : n.expirationTimers[id] = t.h

\* C17: in the hash-table manager, an update with a valid id and a valid
\* value fails with the does-not-exist error and changes nothing when the id
\* has no Character; when it has one, the update succeeds, changes only the
\* named field of that Character and reschedules its timer.
C17_Updates ==
    \A name \in UpdateNames : \A evt \in HarnessEvents(name) :
        LET r == registryUpdate(reg, name, evt)
            id == evt.id
            f == FieldOf(name)
        IN ValidUpdate(name, evt) =>
             IF id \notin DOMAIN reg.characters
             THEN /\ ~r.success
                  /\ r.error = characterDoesNotExistError
                  /\ Unchanged(r.m, reg)
             ELSE /\ r.success
                  /\ r.m.characters =
                        [reg.characters EXCEPT ![id] = [@ EXCEPT ![f] = evt[f]]]
                  /\ Rescheduled(reg, r.m, id)

\* socket a moved ID1 to POut (socket b was told), ID1's timer restarted,
\* and ID2 has no Character
C17_Witness ==
    /\ \E e \in sent : e.name = "character-position" /\ e.evt.id = ID1 /\ e.evt.position = POut
    /\ ID1 \in DOMAIN reg.characters
    /\ reg.characters[ID1].position = POut
    /\ reg.characters[ID1].username = Alice
    /\ {t.left : t \in LiveFor(reg, ID1)} = {characterIdleMs}
    /\ ID2 \notin DOMAIN reg.characters


\* C18: in the hash-table manager, ping with a valid id that has no Character
\* fails with the does-not-exist error and changes nothing; ping with a known
\* id succeeds, leaves every Character as it was and only restarts the timer
\* of that id.
C18_Ping ==
    variant = "hash" =>
        \A id \in ValidIds :
            LET r == ping(reg, IdEvt(id))
            IN IF id \notin DOMAIN reg.characters
               THEN /\ ~r.success
                    /\ r.error = characterDoesNotExistError
                    /\ Unchanged(r.m, reg)
               ELSE /\ r.success
                    /\ r.m.characters = reg.characters
                    /\ Rescheduled(reg, r.m, id)

\* ID1 has a Character whose timer has run down by a tick; a ping restarts
\* it; ID2 has no Character and its ping fails
C18_Witness ==
    /\ variant = "hash"
    /\ ID1 \in DOMAIN reg.characters
    /\ {t.left : t \in LiveFor(reg, ID1)} = {characterIdleMs - TickMs}
    /\ ping(reg, IdEvt(ID1)).success
    /\ {t.left : t \in LiveFor(ping(reg, IdEvt(ID1)).m, ID1)} = {characterIdleMs}
    /\ ID2 \notin DOMAIN reg.characters
    /\ ~ping(reg, IdEvt(ID2)).success


\* every component of position v3 is a number within [boundsMin, boundsMax]
InBounds(v3) ==
    /\ v3.k = "object"
    /\ \A n \in {v3.x, v3.y, v3.z} :
          n.k = "number" /\ n.v >= boundsMin /\ n.v <= boundsMax

\* C19: in the hash-table manager, the position stored by an accepted
\* characterJoin or updateCharacterPosition is the submitted position clamped
\* componentwise to [boundsMin, boundsMax], and every stored position of
\* every reachable state is within these bounds.
C19_Clamped ==
    variant = "hash" =>
        /\ \A id \in DOMAIN reg.characters : InBounds(reg.characters[id].position)
        /\ \A op \in {"character-join", "character-position"} :
              \A evt \in HarnessEvents(op) :
                 LET r == Call(reg, op, evt)
                 IN r.success =>
                       r.m.characters[evt.id].position = clampVector3(evt.position)


---------------------------------------------------------------------------
(* Claims on both managers: removal *)

\* the ids expirationTimers of manager m has an entry for
timerIds(m) ==
    IF variant = "hash" THEN DOMAIN m.expirationTimers
    ELSE {m.expirationTimers[i].id : i \in 1..Len(m.expirationTimers)}

\* the Characters of manager m but those of id, in their order
others(m, id) ==
    IF variant = "hash" THEN Without(m.characters, id)
    ELSE LET keep(char) == char.id # id IN SelectSeq(m.characters, keep)

\* C20: in both managers, characterPart(id) reports no error; after it id has
\* no Character and no timer while every other Character and timer is as
\* before; a second characterPart(id) changes nothing, and so does a
\* characterPart for an id that has no Character (as one that never had).
C20_PartIdempotent ==
    \A id \in Ids :
        LET r == Call(reg, "character-part", IdEvt(id))
            again == Call(r.m, "character-part", IdEvt(id))
        IN /\ r.success
           /\ id \notin present(r.m)
           /\ id \notin timerIds(r.m)
           /\ LiveFor(r.m, id) = {}
           /\ others(r.m, id) = others(reg, id)
           /\ {t \in r.m.live : t.id # id} = {t \in reg.live : t.id # id}
           /\ timerIds(r.m) = timerIds(reg) \ {id}
           /\ again.success
           /\ Unchanged(again.m, r.m)
           /\ id \notin present(reg) => Unchanged(r.m, reg)


---------------------------------------------------------------------------
(* Claims on the session worker: connections *)

\* C21: a connection is bound to at most one character id: once the
\* characterId of a connection is X, no later message on that connection
\* sets it to another id.
C21_OneIdPerConnection ==
    [][\A c \in Sockets :
          (sconns[c].connected /\ sconns'[c].connected
              /\ sconns[c].characterId # Undefined)
          => sconns'[c].characterId = sconns[c].characterId]_vars


---------------------------------------------------------------------------
(* Claims on what the workers send to their sockets *)

\* the character-ping messages among the emits of a handler
pingEmits(emits) == {e \in emits : e.name = "character-ping"}

\* C22: no worker emits character-ping to a client socket: not the session
\* worker on a ping of a socket, not a fan-out worker on a ping of a socket,
\* not a fan-out worker on a ping taken from the channel.
C22_NoPingEmitted ==
    /\ \A c \in Sockets : \A evt \in SessionPingEvents :
          pingEmits(onCharacterPing(reg, sconns, c, evt).emits) = {}
    /\ \A w \in Running : \A evt \in FanEvents("character-ping") :
          pingEmits(onSocketEvent(fw[w], w, "character-ping", evt).emits) = {}
    /\ \A w \in Running : \A i \in 1..Len(chan) :
          w \in chan[i].pending =>
             pingEmits(subMessage(fw[w], w, chan[i].msg).emits) = {}


---------------------------------------------------------------------------
(* The session worker at the scale of the introduce throttle: the clock
   advances by half windows, over a few windows.  hist is the ghost
   [sincePush, owed, steps]: the time since introduceCharacters last ran for
   each socket (ThrottleMs stands for "that long or never"), whether a
   request of the socket has not been served yet, and the steps of the
   clock so far. *)

MaxSteps == 5
StepMs == ThrottleMs \div 2

JoinBob2 == Evt(ID2, Bob, P101, R000, UndefinedVec, UndefinedNum)
ThrottleJoinEvents == {JoinAlice, JoinBob2}

NewGhost ==
    [sincePush |-> [c \in Sockets |-> ThrottleMs], owed |-> [c \in Sockets |-> FALSE],
     steps |-> 0]

\* socket c called the throttled function, or its timeout ran
Called(h, c, invoked, timer) ==
    IF invoked
    THEN [h EXCEPT !.sincePush[c] = 0, !.owed[c] = FALSE]
    ELSE IF timer THEN h ELSE [h EXCEPT !.owed[c] = TRUE]

ThrottleRan(r) ==
    /\ reg' = r.m
    /\ sconns' = r.conns
    /\ sent' = r.emits
    /\ UNCHANGED <<variant, up, fw, chan, events, proc>>

ThrottleConnect ==
    \E c \in Sockets :
        /\ ~sconns[c].connected
        /\ sconns' = [sconns EXCEPT ![c] = [NewConn EXCEPT !.connected = TRUE]]
        /\ sent' = {}
        /\ hist' = [hist EXCEPT !.sincePush[c] = ThrottleMs, !.owed[c] = FALSE]
        /\ UNCHANGED <<variant, reg, up, fw, chan, events, proc>>

ThrottleJoin ==
    \E c \in Connected(sconns), evt \in ThrottleJoinEvents :
        /\ ThrottleRan(onCharacterJoin(reg, sconns, c, evt))
        /\ hist' = IF characterJoin(reg, evt).success
                   THEN Called(hist, c, debounced(sconns[c].introduce).invoked, FALSE)
                   ELSE hist

ThrottleIntroduce ==
    \E c \in Connected(sconns) :
        /\ ThrottleRan(onIntroduce(reg, sconns, c))
        /\ hist' = Called(hist, c, debounced(sconns[c].introduce).invoked, FALSE)

\* the timeouts of socket c's throttle that are due
Due(c) == sconns[c].connected /\ sconns[c].introduce.timerId /\ sconns[c].introduce.left = 0

ThrottleTimer ==
    \E c \in Sockets :
        /\ Due(c)
        /\ ThrottleRan(onThrottleTimer(reg, sconns, c))
        /\ hist' = Called(hist, c, timerExpired(sconns[c].introduce).invoked, TRUE)

\* StepMs pass; the runtime runs a due timeout before more time passes
ThrottleTick ==
    /\ hist.steps < MaxSteps
    /\ \A c \in Sockets : ~Due(c)
    /\ reg' = [reg EXCEPT !.live = Elapse(@, StepMs)]
    /\ sconns' = [c \in Sockets |->
                     [sconns[c] EXCEPT !.introduce = elapseThrottle(@, StepMs)]]
    /\ hist' = [hist EXCEPT
                  !.steps = @ + 1,
                  !.sincePush = [c \in Sockets |->
                                    IF @[c] + StepMs >= ThrottleMs THEN ThrottleMs
                                    ELSE @[c] + StepMs]]
    /\ sent' = {}
    /\ UNCHANGED <<variant, up, fw, chan, events, proc>>

InitT ==
    /\ variant = "hash"
    /\ reg = NewManager
    /\ hist = NewGhost
    /\ sconns = [c \in Sockets |-> NewConn]
    /\ up = TRUE
    /\ sent = {}
    /\ fw = [w \in Workers |-> NewWorker]
    /\ chan = <<>>
    /\ events = 0
    /\ proc = NewProcess

NextT ==
    \/ ThrottleConnect
    \/ ThrottleJoin
    \/ ThrottleIntroduce
    \/ ThrottleTimer
    \/ ThrottleTick

SpecT == InitT /\ [][NextT]_vars

\* C23: for one connection, introduceCharacters never runs less than
\* ThrottleMs after its previous run, whether a join, an introduce or the
\* throttle's timeout calls it; and a request that did not run it at once
\* stays owed to a pending timeout of the throttle.
C23_Throttle ==
    \A c \in Connected(sconns) :
        /\ debounced(sconns[c].introduce).invoked => hist.sincePush[c] >= ThrottleMs
        /\ (Due(c) /\ timerExpired(sconns[c].introduce).invoked)
              => hist.sincePush[c] >= ThrottleMs
        /\ hist.owed[c] => sconns[c].introduce.timerId /\ sconns[c].introduce.lastArgs


---------------------------------------------------------------------------
(* Claims on the session worker: introduce *)

\* one character-join for socket c per Character that is not c's own
Snapshot(m, conns, c) ==
    {Emit(c, "character-join", toEvent(m.characters[k])) :
        k \in DOMAIN m.characters \ {conns[c].characterId}}

\* C24: an introduce request of socket c leaves the Registry and the other
\* sockets as they are and emits to c alone; when the throttle lets
\* introduceCharacters run, now or at the end of the window, c gets exactly
\* one character-join per Character whose id is not c's characterId, and
\* never its own Character.
C24_Introduce ==
    up => \A c \in Connected(sconns) :
            LET r == onIntroduce(reg, sconns, c)
                late == onThrottleTimer(reg, sconns, c)
            IN /\ r.m = reg
               /\ ~r.thrown
               /\ \A d \in Sockets \ {c} : r.conns[d] = sconns[d]
               /\ r.conns[c].characterId = sconns[c].characterId
               /\ r.emits = IF shouldInvoke(sconns[c].introduce)
                            THEN Snapshot(reg, sconns, c) ELSE {}
               /\ late.m = reg
               /\ late.emits \in {{}, Snapshot(reg, sconns, c)}
               /\ (sconns[c].introduce.lastArgs /\ shouldInvoke(sconns[c].introduce))
                     => late.emits = Snapshot(reg, sconns, c)

\* socket a holds ID1, the Registry has ID1 and ID2, and an introduce of a
\* sends a the Character of ID2 alone
C24_Witness ==
    /\ up
    /\ sconns["a"].connected
    /\ sconns["a"].characterId = ID1
    /\ DOMAIN reg.characters = {ID1, ID2}
    /\ onIntroduce(reg, sconns, "a").emits =
          {Emit("a", "character-join", toEvent(reg.characters[ID2]))}


---------------------------------------------------------------------------
(* Claims on the fan-out workers: updates, removal, malformed messages *)

\* msg is a position or rotation update with a valid payload that its
\* publisher, which holds the character, sent
ValidMove(msg) ==
    /\ validIdPattern(msg.evt.id)
    /\ fw[msg.workerId].up
    /\ \E i \in 1..Len(fw[msg.workerId].m.characters) :
          fw[msg.workerId].m.characters[i].id = msg.evt.id
    /\ \/ /\ msg.evtName = "character-position"
          /\ isValidVector3Component(msg.evt.position)
          /\ isValidVector3Component(msg.evt.cameraPosition)
          /\ isNumber(msg.evt.playerHeight)
       \/ /\ msg.evtName = "character-rotation"
          /\ isValidVector3Component(msg.evt.rotation)

\* the positions (or rotations) manager m stores for the id of msg
StoredMove(m, msg) ==
    {IF msg.evtName = "character-position" THEN m.characters[i].position
     ELSE m.characters[i].rotation :
        i \in {j \in 1..Len(m.characters) : m.characters[j].id = msg.evt.id}}

\* C25: when a position or rotation update for id X that worker A published
\* is delivered to another worker B, B's Registry stores for X the value the
\* update carries, whatever B got of the earlier messages for X (the channel
\* hands over the messages in any order).
C25_SelfHeal ==
    \A w \in Running : \A msg \in PendingFor(w) :
        (msg.workerId # w /\ ValidMove(msg)) =>
            StoredMove(subMessage(fw[w], w, msg).m, msg) =
               {IF msg.evtName = "character-position"
                THEN clampVector3(msg.evt.position) ELSE msg.evt.rotation}


\* the ids worker w holds a Character for after a join of one of its sockets
LocalIds(w) ==
    {id \in AllIds :
        /\ \E i \in 1..Len(fw[w].m.characters) : fw[w].m.characters[i].id = id
        /\ \E i \in 1..Len(chan) :
              /\ chan[i].msg.workerId = w
              /\ chan[i].msg.evtName = "character-join"
              /\ chan[i].msg.evt.id = id}

\* the handler result r removes id at worker w and tells the sockets other
\* than c and the other workers
Removed(r, id, w, c) ==
    /\ \A i \in 1..Len(r.m.characters) : r.m.characters[i].id # id
    /\ LiveFor(r.m, id) = {}
    /\ \A d \in fw[w].conns \ {c} : Emit(d, "character-part", IdEvt(id)) \in r.emits
    /\ \E i \in 1..Len(r.published) :
          /\ r.published[i].evtName = "character-part"
          /\ r.published[i].evt.id = id

\* C26: in a fan-out worker, when a socket sends character-part for its
\* character, or closes, the character and its timer leave the worker's
\* Registry and character-part goes to the other local sockets and to the
\* channel.
C26_FanPart ==
    \A w \in Running : \A c \in fw[w].conns : \A id \in LocalIds(w) :
        /\ Removed(onClientEvent(fw[w], w, "character-part", IdEvt(id)), id, w, c)
        /\ Removed(onSocketClose(fw[w], w, c), id, w, c)


\* The fan-out workers with a channel other programs can publish to.

\* a text that is not JSON arrives on the channel
FanGarbage ==
    /\ events < MaxEvents
    /\ events' = events + 1
    /\ chan' = Channel(chan, <<NotJson>>, {})
    /\ UNCHANGED <<variant, reg, hist, sconns, up, sent, fw, proc>>

NextG == NextF \/ FanGarbage

SpecG == InitF /\ [][NextG]_vars

\* C27: a channel message that fails to parse changes nothing in the
\* worker's Registry, is emitted to no socket, is not published and does not
\* end the worker, which handles the later messages as before.
C27_Discard ==
    \A w \in Running : \A msg \in PendingFor(w) :
        parseThrows(msg) =>
            LET r == subMessage(fw[w], w, msg)
            IN /\ r.m = fw[w].m
               /\ r.emits = {}
               /\ r.published = <<>>
               /\ ~r.thrown

\* worker 1 took a text that is not JSON (worker 2 has yet to), runs, and
\* holds the Character of a join that worker 2 published
C27_Witness ==
    /\ \E i \in 1..Len(chan) : chan[i].msg = NotJson /\ chan[i].pending = {"2"}
    /\ fw["1"].up
    /\ fw["1"].conns = {}
    /\ \E i \in 1..Len(fw["1"].m.characters) : fw["1"].m.characters[i].id = ID1


---------------------------------------------------------------------------
(* Claims on both managers: payloads with missing fields, snapshots *)

\* the payload of operation op lacks a vector the operation reads
Missing(op, evt) ==
    CASE op = "character-join" ->
            evt.position.k = "undefined" \/ evt.rotation.k = "undefined"
      [] op = "character-position" -> evt.position.k = "undefined"
      [] op = "character-rotation" -> evt.rotation.k = "undefined"
      [] OTHER -> FALSE

\* C28: in both managers no operation throws, whatever the payload: a
\* payload with a missing position or rotation gets a failure outcome.
C28_NoThrow ==
    \A op \in EventNames \cup {"character-part"} : \A evt \in HarnessEvents(op) :
        LET r == Call(reg, op, evt)
        IN /\ r.error # "TypeError"
           /\ Missing(op, evt) => ~r.success


\* The hash-table manager and a caller that keeps the array characterList()
\* returned.  The array is new, its elements are the Character objects of the
\* manager.  hist is the ghost [ids, taken, shared, frozen]: the ids of the
\* objects in the kept array, their fields when the array was returned, the
\* ids whose object is still the one the manager holds, and the fields of
\* the objects the manager dropped since.

NoList == [ids |-> {}, taken |-> <<>>, shared |-> {}, frozen |-> <<>>]

ListEvents(op) ==
    CASE op = "character-join" -> {JoinAlice, JoinBob2}
      [] op = "character-username" -> {NameBob}
      [] op = "character-position" -> {PositionOut}
      [] op = "character-rotation" ->
            {Evt(ID1, Undefined, UndefinedVec, VNaN, UndefinedVec, UndefinedNum),
             Evt(ID2, Undefined, UndefinedVec, R000, UndefinedVec, UndefinedNum)}
      [] OTHER -> {IdEvt(ID1), IdEvt(ID2)}

\* delete this.characters[id]: the kept array still refers to the object
Detach(h, m, id) ==
    IF id \in h.shared
    THEN [h EXCEPT !.shared = @ \ {id}, !.frozen = (id :> m.characters[id]) @@ @]
    ELSE h

\* the caller calls characterList() and keeps the result
ListTake ==
    /\ hist' = [ids |-> DOMAIN reg.characters, taken |-> reg.characters,
                shared |-> DOMAIN reg.characters, frozen |-> <<>>]
    /\ UNCHANGED <<variant, reg, sconns, up, sent, fw, chan, events, proc>>

\* an operation that assigns fields of the object it finds, or adds an object
ListChange ==
    \E op \in EventNames : \E evt \in ListEvents(op) :
        /\ reg' = Call(reg, op, evt).m
        /\ UNCHANGED <<variant, hist, sconns, up, sent, fw, chan, events, proc>>

ListPart ==
    \E evt \in ListEvents("character-part") :
        /\ reg' = Call(reg, "character-part", evt).m
        /\ hist' = Detach(hist, reg, evt.id)
        /\ UNCHANGED <<variant, sconns, up, sent, fw, chan, events, proc>>

ListTick ==
    /\ \A t \in reg.live : t.left > 0
    /\ reg' = [reg EXCEPT !.live = Elapse(@, TickMs)]
    /\ UNCHANGED <<variant, hist, sconns, up, sent, fw, chan, events, proc>>

ListExpire ==
    \E t \in DueTimers :
        /\ reg' = onExpire(reg, sconns, t).m
        /\ hist' = Detach(hist, reg, t.id)
        /\ UNCHANGED <<variant, sconns, up, sent, fw, chan, events, proc>>

InitL ==
    /\ variant = "hash"
    /\ reg = NewManager
    /\ hist = NoList
    /\ sconns = [c \in Sockets |-> NewConn]
    /\ up = TRUE
    /\ sent = {}
    /\ fw = [w \in Workers |-> NewWorker]
    /\ chan = <<>>
    /\ events = 0
    /\ proc = NewProcess

NextL ==
    \/ ListTake
    \/ ListChange
    \/ ListPart
    \/ ListTick
    \/ ListExpire

SpecL == InitL /\ [][NextL]_vars

\* the fields the caller reads from the object of id in the kept array
Seen(id) == IF id \in hist.shared THEN reg.characters[id] ELSE hist.frozen[id]

\* C29: the array characterList() returned keeps its members, and the
\* username, position and rotation the caller reads from them stay those of
\* the moment of the call, whatever join, part, update or expiry follows.
C29_Snapshot ==
    \A id \in hist.ids :
        /\ id \in hist.shared \cup DOMAIN hist.frozen
        /\ Seen(id) = hist.taken[id]


---------------------------------------------------------------------------
(* The start and the shutdown of a worker process (http-ws-worker.ts and
   the Redis fan-out worker).  Whether a close operation throws is the
   environment's choice, drawn when the process starts. *)

Kinds == {"session", "fanout"}

\* the close operations of shutdown, in the order of the code
Closers(kind) ==
    <<"socketServer.close", "httpServer.close">>
    \o (IF kind = "fanout" THEN <<"pub.quit", "sub.quit">> ELSE <<>>)

Range(seq) == {seq[i] : i \in 1..Len(seq)}

\* a shutdown whose closes share one try block
shutdownOneTry(kind, code, throws) ==
    LET closers == Closers(kind)
        failing == {i \in 1..Len(closers) : closers[i] \in throws}
        first == CHOOSE i \in failing : \A j \in failing : i <= j
    IN IF failing = {}
       THEN [attempted |-> closers, status |-> code]
       ELSE [attempted |-> SubSeq(closers, 1, first), status |-> 1]

\* shutdown(code): every close in a try block of its own, then process.exit
shutdown(kind, code, throws) ==
    LET e1 == IF "socketServer.close" \in throws THEN 1 ELSE code
        e2 == IF "httpServer.close" \in throws THEN 1 ELSE e1
        e3 == IF kind = "fanout" /\ "pub.quit" \in throws THEN 1 ELSE e2
        e4 == IF kind = "fanout" /\ "sub.quit" \in throws THEN 1 ELSE e3
    IN [attempted |-> Closers(kind), status |-> e4]

Exited(by, code) ==
    LET r == shutdown(proc.kind, code, proc.throws)
    IN /\ proc' = [phase |-> "exited", kind |-> proc.kind, throws |-> proc.throws,
                   was |-> proc.phase, by |-> by, code |-> code,
                   attempted |-> r.attempted, status |-> r.status]
       /\ UNCHANGED <<variant, reg, hist, sconns, up, sent, fw, chan, events>>

\* httpServerListening()
Listening ==
    /\ proc.phase = "binding"
    /\ proc' = [proc EXCEPT !.phase = "listening"]
    /\ UNCHANGED <<variant, reg, hist, sconns, up, sent, fw, chan, events>>

\* httpServerListening(err): shutdown(1)
BindError == proc.phase = "binding" /\ Exited("bind error", 1)

\* process.on("SIGINT", () => shutdown()), process.on("SIGTERM", () => shutdown())
Signal ==
    \E sig \in {"SIGINT", "SIGTERM"} :
        proc.phase \in {"binding", "listening"} /\ Exited(sig, 0)

InitS ==
    /\ variant = "hash"
    /\ reg = NewManager
    /\ hist = [idle |-> [i \in AllIds |-> 0], joined |-> {}, rejoined |-> {}]
    /\ sconns = [c \in Sockets |-> NewConn]
    /\ up = TRUE
    /\ sent = {}
    /\ fw = [w \in Workers |-> NewWorker]
    /\ chan = <<>>
    /\ events = 0
    /\ \E kind \in Kinds : \E throws \in SUBSET Range(Closers(kind)) :
          proc = [phase |-> "binding", kind |-> kind, throws |-> throws]

NextS ==
    \/ Listening
    \/ BindError
    \/ Signal

SpecS == InitS /\ [][NextS]_vars

\* C30: shutdown attempts every close operation of the worker, in order,
\* whichever of them throw; the process exits with status 0 exactly when
\* shutdown was called with code 0 and no close threw; a bind error ends in
\* a status other than 0.
C30_Shutdown ==
    /\ proc.phase = "exited" =>
          /\ proc.attempted = Closers(proc.kind)
          /\ proc.status = 0 <=> (proc.code = 0 /\ proc.throws = {})
          /\ proc.by = "bind error" => proc.status # 0 /\ proc.was = "binding"
    /\ proc.phase # "off" =>
          \A code \in 0..2 :
             LET r == shutdown(proc.kind, code, proc.throws)
             IN /\ r.attempted = Closers(proc.kind)
                /\ r.status = 0 <=> (code = 0 /\ proc.throws = {})

\* a fan-out worker got SIGTERM, its first close threw, the three other
\* closes were attempted all the same, and it exited with status 1
C30_Witness ==
    /\ proc.phase = "exited"
    /\ proc.kind = "fanout"
    /\ proc.by = "SIGTERM"
    /\ proc.throws = {"socketServer.close"}
    /\ Len(proc.attempted) = 4
    /\ proc.status = 1


---------------------------------------------------------------------------
(* Claims on the array manager: timers *)

\* C38: in the array manager, every entry of expirationTimers and every
\* live timeout is for an id that has a Character.
C38_NoOrphanTimer ==
    variant = "array" =>
        /\ timerIds(reg) \subseteq present(reg)
        /\ \A t \in reg.live : t.id \in present(reg)


---------------------------------------------------------------------------
(* Claims on the keep-alive *)

\* the keep-alive period of the scene: setInterval(..., 5000)
PingMs == 5000

\* C31: in the hash-table manager the idle timer of an id runs its callback
\* only when characterIdleMs have passed since the last accepted message
\* for that id; a character whose pings are accepted every PingMs, which is
\* less than characterIdleMs, is never removed by expiration.
C31_KeepAlive ==
    [][variant = "hash" =>
          /\ PingMs < characterIdleMs
          /\ \A id \in AllIds :
                TimerFireOf(id) => hist.idle[id] >= characterIdleMs]_vars

\* ID1's timer is one tick from its deadline; a ping is accepted and, a tick
\* later, no timer of ID1 is due
C31_Witness ==
    /\ variant = "hash"
    /\ ID1 \in present(reg)
    /\ \E t \in reg.live : t.id = ID1 /\ t.left = TickMs
    /\ hist.idle[ID1] = characterIdleMs - TickMs
    /\ LET r == ping(reg, IdEvt(ID1))
       IN /\ r.success
          /\ \A t \in Elapse(r.m.live, TickMs) : t.id = ID1 => t.left > 0


---------------------------------------------------------------------------
(* The master process, src/server/index.ts *)

\* os.cpus().length ranges over 1..MaxCpus
MaxCpus == 4

\* the forked workers: one "ws" worker per cpu, then one "preview" worker
WsWorkers(p) == 1..p.cpus
Forked(p) == 1..(p.cpus + 1)

\* the "ws" workers of a running master that are running
RunningWs(p) ==
    IF p.phase = "master" THEN {i \in WsWorkers(p) : p.workers[i] = "online"} ELSE {}

\* the master branch of the script: fork every worker, listen to "error"
MasterRun ==
    /\ proc.phase = "starting"
    /\ proc' = [phase |-> "master", cpus |-> proc.cpus, forks |-> proc.cpus + 1,
                workers |-> [i \in Forked(proc) |-> "online"]]
    /\ UNCHANGED <<variant, reg, hist, sconns, up, sent, fw, chan, events>>

\* a worker process ends (its shutdown calls process.exit); the master has
\* no listener for it
WorkerExit ==
    \E i \in Forked(proc) :
        /\ proc.phase = "master"
        /\ proc.workers[i] = "online"
        /\ proc' = [proc EXCEPT !.workers[i] = "dead"]
        /\ UNCHANGED <<variant, reg, hist, sconns, up, sent, fw, chan, events>>

\* a worker emits "error": workerError logs it and ends the master with
\* process.exit(1)
WorkerError ==
    \E i \in Forked(proc) :
        /\ proc.phase = "master"
        /\ proc' = [proc EXCEPT !.phase = "exited", !.workers[i] = "failed"]
        /\ UNCHANGED <<variant, reg, hist, sconns, up, sent, fw, chan, events>>

InitM ==
    /\ variant = "hash"
    /\ reg = NewManager
    /\ hist = [idle |-> [i \in AllIds |-> 0], joined |-> {}, rejoined |-> {}]
    /\ sconns = [c \in Sockets |-> NewConn]
    /\ up = TRUE
    /\ sent = {}
    /\ fw = [w \in Workers |-> NewWorker]
    /\ chan = <<>>
    /\ events = 0
    /\ \E n \in 1..MaxCpus : proc = [phase |-> "starting", cpus |-> n]

NextM ==
    \/ MasterRun
    \/ WorkerExit
    \/ WorkerError

SpecM == InitM /\ [][NextM]_vars

\* the master script runs, and whatever the master can do it does
FairSpecM == SpecM /\ WF_vars(MasterRun)

\* C32: after a "ws" worker has failed, the master forks a replacement:
\* eventually as many "ws" workers run under the master as it first forked.
C32_Restart ==
    (proc.phase \in {"master", "exited"} /\ \E i \in WsWorkers(proc) : proc.workers[i] # "online")
        ~> (Cardinality(RunningWs(proc)) = proc.cpus)


---------------------------------------------------------------------------
(* Claims on shared and foreign ids in the session handler *)

\* C33: when two connected sockets both remember the id X of an accepted
\* join, the disconnect of one of them leaves the Character of X and its
\* timer in the Registry.
C33_SharedIdSurvives ==
    \A c \in Sockets : \A e \in Sockets \ {c} :
        LET X == sconns[c].characterId
            r == onDisconnect(reg, sconns, c)
        IN (/\ sconns[c].connected
            /\ sconns[e].connected
            /\ X # Undefined
            /\ sconns[e].characterId = X
            /\ X \in DOMAIN reg.characters)
           => /\ X \in DOMAIN r.m.characters
              /\ r.m.characters[X] = reg.characters[X]
              /\ {t \in r.m.live : t.id = X} = {t \in reg.live : t.id = X}


\* C36: a username, position or rotation message from the socket c leaves
\* every Character but the one whose id c remembers from its own join as
\* it was.
C36_OwnCharacterOnly ==
    \A c \in Sockets : \A name \in UpdateNames : \A evt \in SessionEvents(name) :
        LET r == onCharacterUpdate(reg, sconns, c, name, evt)
        IN sconns[c].connected =>
              \A X \in DOMAIN reg.characters \ {sconns[c].characterId} :
                  /\ X \in DOMAIN r.m.characters
                  /\ r.m.characters[X] = reg.characters[X]


\* C34: once no socket is connected, every Character left in the Registry
\* has a running timer, whose callback removes it when the idle period has
\* passed; a Character without one would stay for ever.
C34_NoLeftover ==
    (up /\ Connected(sconns) = {}) =>
        /\ \A id \in DOMAIN reg.characters : \E t \in reg.live : t.id = id
        /\ \A t \in reg.live : t.id \in DOMAIN reg.characters


---------------------------------------------------------------------------
(* The scene, src/scene/index.tsx: one client with its own CharacterManager,
   connected to the session worker as the socket "b"; the socket "a" is
   another client, whose character is ID1 *)

Scene == "b"
Peer == "a"

\* the other client waits while MaxQueue messages are on their way to the scene
MaxQueue == 1

Msg(name, evt) == [name |-> name, evt |-> evt]

\* this.character = new Character(): a random id, username = id, zeros
character == Character(ID2, ID2, R000, R000)

\* characterManager, the introduce throttle, and the kinds of message on
\* their way to the worker (a second message of a kind joins the first)
NewScene == [m |-> NewManager, introduce |-> NewThrottle, out |-> {}]

\* the message of a kind the scene emits
sceneMessage(name) ==
    IF name = "character-join" THEN Msg(name, toEvent(character))
    ELSE Msg(name, IdEvt(Undefined))

\* what the scene's CharacterManager answers to a relayed event
sceneResult(cl, name, evt) ==
    CASE name = "character-join" -> characterJoin(cl.m, evt)
      [] name = "character-part" -> characterPart(cl.m, evt)
      [] OTHER -> registryUpdate(cl.m, name, evt)

\* this.introduce(): the throttled socket.emit("introduce")
sceneIntroduce(cl) ==
    LET th == debounced(cl.introduce)
    IN [cl EXCEPT !.introduce = th.t,
                  !.out = IF th.invoked THEN @ \cup {"introduce"} ELSE @]

\* the timeout of the scene's throttle runs
sceneThrottleTimer(cl) ==
    LET th == timerExpired(cl.introduce)
    IN [cl EXCEPT !.introduce = th.t,
                  !.out = IF th.invoked THEN @ \cup {"introduce"} ELSE @]

\* a scene that does not ask to be introduced
sceneEventQuiet(cl, name, evt) ==
    LET r == sceneResult(cl, name, evt)
    IN IF r.success THEN [cl EXCEPT !.m = r.m] ELSE cl

\* characterJoin, characterPart, characterUsername, characterPosition and
\* characterRotation of the scene
sceneEvent(cl, name, evt) ==
    LET r == sceneResult(cl, name, evt)
    IN IF r.success THEN [cl EXCEPT !.m = r.m] ELSE sceneIntroduce(cl)

\* socketConnected: join()
socketConnected(cl) ==
    [cl EXCEPT !.out = @ \cup {"character-join"}]

\* what the worker emits to the socket c, as a queue
RECURSIVE inOrder(_, _)
inOrder(emits, c) ==
    LET mine == {e \in emits : e.to = c}
    IN IF mine = {} THEN <<>>
       ELSE LET e == CHOOSE x \in mine : TRUE
            IN <<Msg(e.name, e.evt)>> \o inOrder(emits \ {e}, c)

\* the worker's handler of a message of the socket c
onMessage(m, conns, c, msg) ==
    CASE msg.name = "character-join" -> onCharacterJoin(m, conns, c, msg.evt)
      [] msg.name = "character-ping" -> onCharacterPing(m, conns, c, msg.evt)
      [] msg.name = "introduce" -> onIntroduce(m, conns, c)
      [] OTHER -> onCharacterUpdate(m, conns, c, msg.name, msg.evt)

\* a handler of the worker ran: its emits to the scene are on their way
Served(r, scene) ==
    /\ ~r.thrown
    /\ reg' = r.m
    /\ sconns' = r.conns
    /\ chan' = (IF r.conns[Scene].connected THEN chan ELSE <<>>) \o inOrder(r.emits, Scene)
    /\ hist' = scene
    /\ UNCHANGED <<variant, up, sent, fw, events, proc>>

\* the scene alone took a step
SceneStep(cl) ==
    /\ hist' = cl
    /\ UNCHANGED <<variant, reg, sconns, up, sent, fw, chan, events, proc>>

PeerJoinEvent == Evt(ID1, Alice, P101, R000, UndefinedVec, UndefinedNum)
PeerMoveEvent == Evt(ID1, Undefined, P101, UndefinedVec, UndefinedVec, UndefinedNum)

\* the socket of the scene connects: the worker's connection handler and
\* the scene's socketConnected
SceneConnect ==
    /\ ~sconns[Scene].connected
    /\ sconns' = [sconns EXCEPT ![Scene] = [NewConn EXCEPT !.connected = TRUE]]
    /\ hist' = socketConnected(hist)
    /\ UNCHANGED <<variant, reg, up, sent, fw, chan, events, proc>>

\* the socket of the scene closes: what was on its way is lost
SceneDisconnect ==
    /\ sconns[Scene].connected
    /\ Served(onDisconnect(reg, sconns, Scene), [hist EXCEPT !.out = {}])

\* the worker handles a message of the scene
SceneServe ==
    \E name \in hist.out :
        /\ sconns[Scene].connected
        /\ Served(onMessage(reg, sconns, Scene, sceneMessage(name)),
                  [hist EXCEPT !.out = @ \ {name}])

\* the scene handles the oldest message of the worker
SceneDeliver ==
    /\ chan # <<>>
    /\ hist' = sceneEvent(hist, Head(chan).name, Head(chan).evt)
    /\ chan' = Tail(chan)
    /\ UNCHANGED <<variant, reg, sconns, up, sent, fw, events, proc>>

SceneThrottleTimer ==
    /\ hist.introduce.timerId
    /\ hist.introduce.left = 0
    /\ SceneStep(IF sconns[Scene].connected THEN sceneThrottleTimer(hist)
                 ELSE [sceneThrottleTimer(hist) EXCEPT !.out = {}])

\* a due timeout of the scene's CharacterManager runs its callback
SceneExpireOf(id) ==
    \E t \in hist.m.live :
        /\ t.id = id
        /\ t.left = 0
        /\ SceneStep([hist EXCEPT !.m = characterPart([@ EXCEPT !.live = @ \ {t}], IdEvt(id)).m])

SceneExpire == \E id \in AllIds : SceneExpireOf(id)

PeerConnect ==
    /\ ~sconns[Peer].connected
    /\ sconns' = [sconns EXCEPT ![Peer] = [NewConn EXCEPT !.connected = TRUE]]
    /\ UNCHANGED <<variant, reg, hist, up, sent, fw, chan, events, proc>>

PeerDisconnect ==
    /\ sconns[Peer].connected
    /\ Len(chan) < MaxQueue
    /\ Served(onDisconnect(reg, sconns, Peer), hist)

\* the other client's join(), frameworkPositionChanged and keep-alive
PeerJoin ==
    /\ sconns[Peer].connected
    /\ Len(chan) < MaxQueue
    /\ Served(onMessage(reg, sconns, Peer, Msg("character-join", PeerJoinEvent)), hist)

PeerMove ==
    /\ sconns[Peer].connected
    /\ Len(chan) < MaxQueue
    /\ Served(onMessage(reg, sconns, Peer, Msg("character-position", PeerMoveEvent)), hist)

PeerPing ==
    /\ sconns[Peer].connected
    /\ Len(chan) < MaxQueue
    /\ Served(onMessage(reg, sconns, Peer, Msg("character-ping", IdEvt(ID1))), hist)

\* the throttle's timeout of a socket of the worker is due
WorkerThrottleTimer ==
    \E c \in Connected(sconns) :
        /\ sconns[c].introduce.timerId
        /\ sconns[c].introduce.left = 0
        /\ Served(onThrottleTimer(reg, sconns, c), hist)

\* a due timeout of the worker's CharacterManager runs its callback
WorkerExpire ==
    \E t \in reg.live :
        /\ t.left = 0
        /\ Served(onExpire(reg, sconns, t), hist)

\* TickMs pass in the worker and in the scene; a due timeout runs before
\* more time passes
SceneTick ==
    /\ \A t \in reg.live \cup hist.m.live : t.left > 0
    /\ \A c \in Connected(sconns) : ~(sconns[c].introduce.timerId /\ sconns[c].introduce.left = 0)
    /\ ~(hist.introduce.timerId /\ hist.introduce.left = 0)
    /\ reg' = [reg EXCEPT !.live = Elapse(@, TickMs)]
    /\ sconns' = [c \in Sockets |->
                     [sconns[c] EXCEPT !.introduce = elapseThrottle(@, TickMs)]]
    /\ hist' = [hist EXCEPT !.m.live = Elapse(@, TickMs),
                            !.introduce = elapseThrottle(@, TickMs)]
    /\ UNCHANGED <<variant, up, sent, fw, chan, events, proc>>

InitC ==
    /\ variant = "hash"
    /\ reg = NewManager
    /\ hist = NewScene
    /\ sconns = [c \in Sockets |-> NewConn]
    /\ up = TRUE
    /\ sent = {}
    /\ fw = [w \in Workers |-> NewWorker]
    /\ chan = <<>>
    /\ events = 0
    /\ proc = NewProcess

NextC ==
    \/ SceneConnect
    \/ SceneDisconnect
    \/ SceneServe
    \/ SceneDeliver
    \/ SceneThrottleTimer
    \/ SceneExpire
    \/ PeerConnect
    \/ PeerDisconnect
    \/ PeerJoin
    \/ PeerMove
    \/ PeerPing
    \/ WorkerThrottleTimer
    \/ WorkerExpire
    \/ SceneTick

SpecC == InitC /\ [][NextC]_vars


---------------------------------------------------------------------------
(* Claims on the scene *)

\* C35: while the other client stays connected with ID1 and its pings keep
\* the worker's timer of ID1 running, the scene, connected and with nothing
\* about ID1 on its way to it, keeps the Character of ID1 it has.
C35_SilentStays ==
    [][(/\ sconns[Scene].connected
        /\ sconns'[Scene].connected
        /\ sconns[Peer].connected
        /\ sconns[Peer].characterId = ID1
        /\ ID1 \in DOMAIN hist.m.characters
        /\ ID1 \in DOMAIN reg.characters
        /\ ID1 \in DOMAIN reg'.characters
        /\ \E t \in reg.live : t.id = ID1 /\ t.left > 0
        /\ \A i \in 1..Len(chan) : chan[i].evt.id # ID1)
       => ID1 \in DOMAIN hist'.m.characters]_vars


\* the scene's messages are handled, its timers run, and time passes
FairSpecC ==
    /\ SpecC
    /\ WF_vars(SceneTick)
    /\ WF_vars(SceneDeliver)
    /\ WF_vars(SceneThrottleTimer)
    /\ WF_vars(SceneServe)
    /\ WF_vars(WorkerThrottleTimer)

\* the scene has asked, or its throttle will ask, to be introduced
Asking(cl) == "introduce" \in cl.out \/ cl.introduce.lastArgs

\* C37: when the scene's CharacterManager rejects a relayed event, the
\* scene emits introduce or its throttle will; and once it has asked while
\* it does not know ID1, it comes to hold the Character of ID1, unless ID1
\* leaves the worker's Registry or the scene's socket closes.
C37_Introduce ==
    /\ [](chan # <<>> /\ ~sceneResult(hist, Head(chan).name, Head(chan).evt).success
            => Asking(sceneEvent(hist, Head(chan).name, Head(chan).evt)))
    /\ (/\ sconns[Scene].connected
        /\ Asking(hist)
        /\ ID1 \in DOMAIN reg.characters
        /\ ID1 \notin DOMAIN hist.m.characters)
          ~> (\/ ID1 \in DOMAIN hist.m.characters
              \/ ID1 \notin DOMAIN reg.characters
              \/ ~sconns[Scene].connected)

\* a position of ID1 is on its way to a scene that does not know ID1, the
\* worker holds ID1, and the scene's handler asks to be introduced
C37_Witness ==
    /\ sconns[Scene].connected
    /\ chan # <<>>
    /\ Head(chan) = Msg("character-position", PeerMoveEvent)
    /\ ID1 \in DOMAIN reg.characters
    /\ ID1 \notin DOMAIN hist.m.characters
    /\ ~Asking(hist)
    /\ "introduce" \in sceneEvent(hist, "character-position", PeerMoveEvent).out

==========================================================================
